---- MODULE Spec2Model ----
(***************************************************************************)
(* A model of pgc (github.com/cliqueinc/pgc): the query builder (pgcq),    *)
(* the CRUD adapter, the row materializer with joins, the type-model       *)
(* cache and the schema-migration engine.                                  *)
(*                                                                         *)
(* SQL text is modelled as a sequence of tokens (keywords, quoted          *)
(* identifiers, positional placeholders, numbers), so that what the code   *)
(* decides by looking at the text (strings.Contains(query, "WHERE")) is    *)
(* decided here by looking at the tokens.                                  *)
(***************************************************************************)
EXTENDS Integers, Sequences, FiniteSets, TLC

VARIABLES
    built,      \* pgcq: the last call of Build: its options, operation and result
    table,      \* crud: the rows of the table behind the record type (pk -> row)
    crudCall,   \* crud: the last UpdateRows / DeleteRows call and what it did
    fieldsCall, \* crud: a Select / Get with Columns(...) and the fields it projects
    sel,        \* rawSelect: the result rows, the scan position, prevRow and the destination
    cachedModelMap, \* type model: the cache (modelMap, mux) and what was done to it
    threads,    \* type model: the goroutines inside parseModel
    mh,         \* migrations: the registered migrations (version -> migration)
    db,         \* migrations: the committed database (user table, bookkeeping, log)
    migCall,    \* migrations: the last migration operation and what it did
    nCalls,     \* migrations: the number of operations called so far
    store,      \* by-PK operations: the committed rows of every table
    txn,        \* by-PK operations: the transaction of the TxAdapter, if one was begun
    nOps,       \* by-PK operations: the number of calls made so far
    res         \* by-PK operations: the last call, what it returned and what it sent

qbVars     == <<built>>
crudVars   == <<table, crudCall>>
fieldsVars == <<fieldsCall>>
selVars    == <<sel>>
cacheVars  == <<cachedModelMap, threads>>
migVars    == <<mh, db, migCall, nCalls>>
opsVars    == <<store, txn, nOps, res>>
vars       == <<built, table, crudCall, fieldsCall, sel, cachedModelMap, threads,
                mh, db, migCall, nCalls, store, txn, nOps, res>>

(***************************************************************************)
(* Tokens of SQL text                                                      *)
(***************************************************************************)
Kw(s)  == [t |-> "kw",  s |-> s,  n |-> 0]
Id(s)  == [t |-> "id",  s |-> s,  n |-> 0]
Ph(i)  == [t |-> "ph",  s |-> "", n |-> i]
Num(i) == [t |-> "num", s |-> "", n |-> i]

\* The sequences over S of length at most n
RECURSIVE SeqsUpTo(_, _)
SeqsUpTo(S, n) ==
    IF n = 0 THEN {<<>>}
    ELSE LET shorter == SeqsUpTo(S, n - 1)
         IN  shorter \cup {Append(s, x) : s \in {t \in shorter : Len(t) = n - 1}, x \in S}

\* strings.Join(frags, sep) on token sequences
RECURSIVE JoinFrags(_, _)
JoinFrags(frags, sep) ==
    IF Len(frags) = 0 THEN <<>>
    ELSE IF Len(frags) = 1 THEN frags[1]
    ELSE frags[1] \o <<Kw(sep)>> \o JoinFrags(Tail(frags), sep)

\* strings.Contains(query, word) for a keyword
ContainsKw(query, word) == \E i \in 1..Len(query) : query[i] = Kw(word)

(***************************************************************************)
(* pgcq: option types, operations, limits                                  *)
(***************************************************************************)
typeQuery      == 1
typePagination == 2
typeOrder      == 3
typeHaving     == 4
typeColumns    == 5
typeJoin       == 6
typeQueryAll   == 7

OpSelect == "select"
OpInsert == "insert"
OpUpdate == "update"
OpDelete == "delete"

DefaultSelectLimit == 1000

\* The options, as the data their closures capture
Equal(field, value)          == [k |-> "where", field |-> field, cmp |-> "=", value |-> value]
NotEqual(field, value)       == [k |-> "where", field |-> field, cmp |-> "!=", value |-> value]
LessThan(field, value)       == [k |-> "where", field |-> field, cmp |-> "<", value |-> value]
LessOrEqual(field, value)    == [k |-> "where", field |-> field, cmp |-> "<=", value |-> value]
GreaterThan(field, value)    == [k |-> "where", field |-> field, cmp |-> ">", value |-> value]
GreaterOrEqual(field, value) == [k |-> "where", field |-> field, cmp |-> ">=", value |-> value]
Like(field, pattern)         == [k |-> "where", field |-> field, cmp |-> "LIKE", value |-> pattern]
Raw(query, args)             == [k |-> "raw", query |-> query, args |-> args]
InValues(field, values)      == [k |-> "in", field |-> field, values |-> values]
All                          == [k |-> "all"]
OR(opts)                     == [k |-> "or", opts |-> opts]
AND(opts)                    == [k |-> "and", opts |-> opts]
Limit(n)                     == [k |-> "limit", n |-> n]
Offset(n)                    == [k |-> "offset", n |-> n]
Order(field, dir)            == [k |-> "order", field |-> field, dir |-> dir]
GroupBy(cols)                == [k |-> "groupby", cols |-> cols]
Having(opts)                 == [k |-> "having", opts |-> opts]
Columns(cols)                == [k |-> "columns", cols |-> cols]
Join(structPtr, condition, cols) ==
    [k |-> "join", structPtr |-> structPtr, condition |-> condition, cols |-> cols]

\* new(Query) with queryType and Args set (Build, lines 362-367)
NewQuery(queryType, existingArgs) ==
    [limit |-> 0, offset |-> 0, order |-> <<>>, group |-> <<>>,
     queryType |-> queryType, Args |-> existingArgs, Columns |-> <<>>,
     Query |-> <<>>, Having |-> <<>>, IsQueryAll |-> FALSE, Joins |-> <<>>]

\* What an option returns: (query, queryType, err), and the Query it mutated
OptRet(q, frag, type, err) == [q |-> q, frag |-> frag, type |-> type, err |-> err]

\* The placeholders $start+1 .. $start+n, comma separated (IN, lines 183-188)
RECURSIVE PhList(_, _)
PhList(start, n) ==
    IF n = 0 THEN <<>>
    ELSE IF n = 1 THEN <<Ph(start + 1)>>
    ELSE PhList(start, n - 1) \o <<Kw(","), Ph(start + n)>>

\* The '?' marks of a raw query among its first i tokens (Raw: argLen)
ArgLen(query, i) == Cardinality({j \in 1..i : query[j] = Kw("?")})

\* The raw text with every mark numbered from 1, whatever the Query holds
RawTextFromOne(query, start) ==
    [i \in 1..Len(query) |->
        IF query[i] = Kw("?") THEN Ph(ArgLen(query, i)) ELSE query[i]]

\* The raw text with every '?' replaced by $(argLen + len(q.Args)) (Raw, the loop)
RawText(query, start) ==
    [i \in 1..Len(query) |->
        IF query[i] = Kw("?") THEN Ph(ArgLen(query, i) + start) ELSE query[i]]

\* Every statement taken for a SELECT
NotSelectNever(q) == FALSE

\* if q.queryType != OpSelect {...}, the first test of the options of a SELECT
NotSelect(q) == q.queryType # OpSelect

RECURSIVE ApplyOpt(_, _), ApplyAll(_, _, _)

\* The loop of OR / AND after one option returned r: the first error, or the
\* first option that is not a search query, ends it.
ApplyAllNext(r, opts, frags) ==
    IF r.err \/ r.type # typeQuery
    THEN [q |-> r.q, frags |-> frags, err |-> TRUE]
    ELSE ApplyAll(Tail(opts), r.q, Append(frags, r.frag))

\* The loop of OR / AND over its options: every option runs on the same Query
ApplyAll(opts, q, frags) ==
    IF Len(opts) = 0 THEN [q |-> q, frags |-> frags, err |-> FALSE]
    ELSE ApplyAllNext(ApplyOpt(Head(opts), q), opts, frags)

\* What OR / AND return once the loop r is over: "(" frags joined by sep ")"
CombineRet(r, sep) ==
    IF r.err THEN OptRet(r.q, <<>>, 0, TRUE)
    ELSE IF Len(r.frags) = 0 THEN OptRet(r.q, <<>>, 0, FALSE)
    ELSE OptRet(r.q, <<Kw("(")>> \o JoinFrags(r.frags, sep) \o <<Kw(")")>>,
                typeQuery, FALSE)

Combine(opts, q, sep) == CombineRet(ApplyAll(opts, q, <<>>), sep)

\* What Having returns, r being AND(opts...) applied to the Query
HavingRet(r) ==
    IF r.err THEN OptRet(r.q, <<>>, 0, TRUE)
    ELSE OptRet([r.q EXCEPT !.Having = r.frag], <<>>, typeHaving, FALSE)

ApplyOpt(opt, q) ==
    CASE opt.k = "where" ->
            IF opt.field = "" THEN OptRet(q, <<>>, 0, TRUE)
            ELSE OptRet([q EXCEPT !.Args = Append(@, opt.value)],
                        <<Id(opt.field), Kw(opt.cmp), Ph(Len(q.Args) + 1)>>,
                        typeQuery, FALSE)
      [] opt.k = "in" ->
            IF opt.field = "" \/ Len(opt.values) = 0 THEN OptRet(q, <<>>, 0, TRUE)
            ELSE OptRet([q EXCEPT !.Args = @ \o opt.values],
                        <<Id(opt.field), Kw("IN"), Kw("(")>>
                            \o PhList(Len(q.Args), Len(opt.values)) \o <<Kw(")")>>,
                        typeQuery, FALSE)
      [] opt.k = "raw" ->
            IF opt.query = <<>> \/ ArgLen(opt.query, Len(opt.query)) # Len(opt.args)
            THEN OptRet(q, <<>>, 0, TRUE)
            ELSE OptRet([q EXCEPT !.Args = @ \o opt.args],
                        RawText(opt.query, Len(q.Args)), typeQuery, FALSE)
      [] opt.k = "all" -> OptRet(q, <<>>, typeQueryAll, FALSE)
      [] opt.k = "or"  -> Combine(opt.opts, q, "OR")
      [] opt.k = "and" -> Combine(opt.opts, q, "AND")
      [] opt.k = "having" ->
            IF NotSelect(q) THEN OptRet(q, <<>>, 0, TRUE)
            ELSE HavingRet(Combine(opt.opts, q, "AND"))
      [] opt.k = "groupby" ->
            IF NotSelect(q) \/ Len(opt.cols) = 0 THEN OptRet(q, <<>>, 0, TRUE)
            ELSE OptRet([q EXCEPT !.group = opt.cols], <<>>, typeOrder, FALSE)
      [] opt.k = "limit" ->
            IF NotSelect(q) \/ opt.n < 0 THEN OptRet(q, <<>>, 0, TRUE)
            ELSE OptRet([q EXCEPT !.limit = opt.n], <<>>, typePagination, FALSE)
      [] opt.k = "offset" ->
            IF NotSelect(q) \/ opt.n < 0 THEN OptRet(q, <<>>, 0, TRUE)
            ELSE OptRet([q EXCEPT !.offset = opt.n], <<>>, typePagination, FALSE)
      [] opt.k = "order" ->
            IF NotSelect(q) \/ opt.dir \notin {"ASC", "DESC"}
            THEN OptRet(q, <<>>, 0, TRUE)
            ELSE OptRet([q EXCEPT !.order = Append(@, <<Id(opt.field), Kw(opt.dir)>>)],
                        <<>>, typeOrder, FALSE)
      [] opt.k = "columns" ->
            IF NotSelect(q) THEN OptRet(q, <<>>, 0, TRUE)
            ELSE OptRet([q EXCEPT !.Columns = opt.cols], <<>>, typeColumns, FALSE)
      [] opt.k = "join" ->
            IF NotSelect(q) \/ opt.structPtr = "" \/ opt.condition = ""
            THEN OptRet(q, <<>>, 0, TRUE)
            ELSE OptRet([q EXCEPT !.Joins = Append(@, [Columns |-> opt.cols,
                                                       Condition |-> opt.condition,
                                                       StructPtr |-> opt.structPtr])],
                        <<>>, typeJoin, FALSE)

RECURSIVE BuildLoop(_, _, _, _)

\* The loop of Build after one option returned r (lines 370-385)
BuildNext(r, opts, whereOpts, isQueryAll) ==
    IF r.err
    THEN [q |-> r.q, whereOpts |-> whereOpts, isQueryAll |-> isQueryAll, err |-> TRUE]
    ELSE IF r.type = typeQueryAll
    THEN BuildLoop(Tail(opts), r.q, whereOpts, TRUE)
    ELSE IF r.type # typeQuery
    THEN BuildLoop(Tail(opts), r.q, whereOpts, isQueryAll)
    ELSE BuildLoop(Tail(opts), r.q, Append(whereOpts, r.frag), isQueryAll)

\* The loop of Build over the options (lines 369-386)
BuildLoop(opts, q, whereOpts, isQueryAll) ==
    IF Len(opts) = 0
    THEN [q |-> q, whereOpts |-> whereOpts, isQueryAll |-> isQueryAll, err |-> FALSE]
    ELSE BuildNext(ApplyOpt(Head(opts), q), opts, whereOpts, isQueryAll)

\* stmt.limit after the default is applied (lines 401-403)
EffectiveLimit(limit, queryType, isQueryAll) ==
    IF limit = 0 /\ queryType = OpSelect /\ ~isQueryAll THEN DefaultSelectLimit ELSE limit

\* Build once the loop l over the options is over (lines 388-414): [err, stmt]
BuildRet(l, queryType, existingArgs) ==
    LET s     == l.q
        limit == EffectiveLimit(s.limit, queryType, l.isQueryAll)
        query == (IF Len(l.whereOpts) # 0
                     THEN <<Kw("WHERE")>> \o JoinFrags(l.whereOpts, "AND") ELSE <<>>)
              \o (IF Len(s.group) # 0
                     THEN <<Kw("GROUP BY")>> \o JoinFrags([i \in 1..Len(s.group) |-> <<Id(s.group[i])>>], ",")
                     ELSE <<>>)
              \o (IF s.Having # <<>> THEN <<Kw("HAVING")>> \o s.Having ELSE <<>>)
              \o (IF Len(s.order) # 0
                     THEN <<Kw("ORDER BY")>> \o JoinFrags(s.order, ",") ELSE <<>>)
              \o (IF limit # 0 THEN <<Kw("LIMIT"), Num(limit)>> ELSE <<>>)
              \o (IF s.offset # 0 THEN <<Kw("OFFSET"), Num(s.offset)>> ELSE <<>>)
    IN  IF l.err THEN [err |-> TRUE, stmt |-> NewQuery(queryType, existingArgs)]
        ELSE [err |-> FALSE,
              stmt |-> [s EXCEPT !.limit = limit, !.Query = query,
                                 !.IsQueryAll = l.isQueryAll]]

\* Build (lines 360-415)
Build(opts, queryType, existingArgs) ==
    BuildRet(BuildLoop(opts, NewQuery(queryType, existingArgs), <<>>, FALSE),
             queryType, existingArgs)

(***************************************************************************)
(* The type model (parseModel) of a record type.  A record type is the     *)
(* sequence of its struct fields: Go name, column name (parseName of the   *)
(* Go name, or the pgc_name tag), pgc tag, kind.  Positions are Go's,      *)
(* counted from 0.                                                         *)
(***************************************************************************)
SField(name, pgName, tag, kind) ==
    [GoName |-> name, PGName |-> pgName, tag |-> tag, kind |-> kind]

pgt_pk_string == "text PRIMARY KEY"
pgt_date_time == "timestamp without time zone NOT NULL"

\* getPGBaseType, by kind
getPGBaseType(kind) ==
    CASE kind = "string" -> "text DEFAULT ''::text NOT NULL"
      [] kind = "int"    -> "integer DEFAULT 0 NOT NULL"
      [] kind = "bool"   -> "boolean DEFAULT false NOT NULL"
      [] kind = "slice"  -> "jsonb DEFAULT '[]'::jsonb NOT NULL"
      [] OTHER           -> "jsonb DEFAULT '{}'::jsonb NOT NULL"

\* field.setPGType: the column type, and the model's PKName after it
setPGType(pkName, pgName, tag, kind) ==
    CASE tag = "pk" -> [PGType |-> pgt_pk_string, PKName |-> pgName, panic |-> FALSE]
      [] tag = "dt" -> [PGType |-> pgt_date_time, PKName |-> pkName, panic |-> FALSE]
      [] tag = ""   ->
            IF pgName = "id" /\ pkName = ""
            THEN [PGType |-> pgt_pk_string, PKName |-> "id", panic |-> FALSE]
            ELSE IF kind = "time"
            THEN [PGType |-> pgt_date_time, PKName |-> pkName, panic |-> FALSE]
            ELSE [PGType |-> getPGBaseType(kind), PKName |-> pkName, panic |-> kind = "ptr"]
      [] OTHER      -> [PGType |-> "", PKName |-> pkName, panic |-> TRUE]

\* &model{Struct: mm, ReflectType: modType}: every other member has Go's zero value
NewModel(tableName) ==
    [TableName |-> tableName, Fields |-> <<>>, PKName |-> "", PKPos |-> 0,
     NoFields |-> FALSE, Joins |-> <<>>, panic |-> FALSE]

\* One pass of the loop of parseModel: the model after the field at position i
parseField(sf, i, mod) ==
    IF sf.tag = "-" THEN mod
    ELSE IF sf.tag = "join"
    THEN [mod EXCEPT !.Joins = Append(@, [joinType |-> sf.kind, pos |-> i])]
    ELSE IF sf.GoName = "PGC"
    THEN [mod EXCEPT !.NoFields = @ \/ sf.tag = "many_to_many"]
    ELSE LET t == setPGType(mod.PKName, sf.PGName, sf.tag, sf.kind)
             newField == [GoName |-> sf.GoName, PGName |-> sf.PGName,
                          PGType |-> t.PGType, FieldPos |-> i]
         IN  [mod EXCEPT !.PKName = t.PKName,
                         !.PKPos  = IF sf.PGName = t.PKName THEN i ELSE @,
                         !.Fields = Append(@, newField),
                         !.panic  = t.panic]

\* The loop of parseModel over the struct's fields, from position i on
RECURSIVE parseFields(_, _, _)
parseFields(st, i, mod) ==
    IF i >= Len(st) \/ mod.panic THEN mod
    ELSE parseFields(st, i + 1, parseField(st[i + 1], i, mod))

\* parseModel on a cache miss: the model, or a panic
parseStruct(tableName, st, requirePK) ==
    LET mod == parseFields(st, 0, NewModel(tableName))
    IN  [mod EXCEPT !.panic = @ \/ (requirePK /\ mod.PKName = "")]

\* model.getFields(columns): the projected fields, or a panic
getFields(mod, columns) ==
    IF Len(columns) = 0 THEN [panic |-> FALSE, fields |-> mod.Fields]
    ELSE LET keep(i) == \/ i = mod.PKPos
                        \/ \E c \in 1..Len(columns) : columns[c] = mod.Fields[i + 1].PGName
             idx    == {i \in 0..(Len(mod.Fields) - 1) : keep(i)}
             fields == SelectSeq(mod.Fields,
                           LAMBDA f : \E i \in idx : mod.Fields[i + 1] = f)
             known(col) == \E j \in 1..Len(fields) : fields[j].PGName = col
         IN  [panic  |-> /\ Len(columns) # Len(fields)
                         /\ \E c \in 1..Len(columns) : ~known(columns[c]),
              fields |-> fields]

\* model.GetFieldsNoPK(columns)
GetFieldsNoPK(mod, columns) ==
    LET r == getFields(mod, columns)
    IN  [panic |-> r.panic,
         fields |-> SelectSeq(r.fields, LAMBDA f : f.PGName # mod.PKName)]

(***************************************************************************)
(* The database behind one table: rows are functions column -> value.      *)
(* A WHERE text is evaluated as PostgreSQL does for the texts Build makes  *)
(* of plain comparisons: WHERE "c" op $n AND "c" op $n ...                 *)
(***************************************************************************)
EvalCmp(cmp, a, b) == IF cmp = "=" THEN a = b ELSE a # b

\* The text is empty, or WHERE followed by comparisons joined by AND
WellFormedWhere(query, args, cols) ==
    \/ query = <<>>
    \/ /\ Len(query) % 4 = 0
       /\ query[1] = Kw("WHERE")
       /\ \A k \in 0..((Len(query) \div 4) - 1) :
            /\ k > 0 => query[4 * k + 1] = Kw("AND")
            /\ query[4 * k + 2].t = "id" /\ query[4 * k + 2].s \in cols
            /\ query[4 * k + 3].t = "kw" /\ query[4 * k + 3].s \in {"=", "!="}
            /\ query[4 * k + 4].t = "ph" /\ query[4 * k + 4].n \in 1..Len(args)

RowMatches(row, query, args) ==
    \A k \in 0..((Len(query) \div 4) - 1) :
        EvalCmp(query[4 * k + 3].s, row[query[4 * k + 2].s], args[query[4 * k + 4].n])

\* The number of parameters a statement text requires: its highest placeholder
ParamCount(n, query) ==
    LET phs == {query[i].n : i \in {j \in 1..Len(query) : query[j].t = "ph"}} \cup {n}
    IN  CHOOSE m \in phs : \A x \in phs : x <= m

\* DELETE FROM t <query>
ExecDelete(rows, cols, query, args) ==
    IF ~WellFormedWhere(query, args, cols) \/ ParamCount(0, query) # Len(args)
    THEN [err |-> TRUE, rows |-> rows, affected |-> 0]
    ELSE LET hit == {r \in rows : RowMatches(r, query, args)}
         IN  [err |-> FALSE, rows |-> rows \ hit, affected |-> Cardinality(hit)]

\* UPDATE t SET f1 = $1, ..., fk = $k <query>
ExecUpdate(rows, cols, fields, query, args) ==
    IF \/ ~WellFormedWhere(query, args, cols)
       \/ Len(fields) = 0
       \/ ParamCount(Len(fields), query) # Len(args)
    THEN [err |-> TRUE, rows |-> rows, affected |-> 0]
    ELSE LET hit == {r \in rows : RowMatches(r, query, args)}
             set(r) == [c \in DOMAIN r |->
                          IF \E j \in 1..Len(fields) : fields[j].PGName = c
                          THEN args[CHOOSE j \in 1..Len(fields) : fields[j].PGName = c]
                          ELSE r[c]]
         IN  [err |-> FALSE, rows |-> (rows \ hit) \cup {set(r) : r \in hit},
              affected |-> Cardinality(hit)]

(***************************************************************************)
(* crudAdapter.UpdateRows and crudAdapter.DeleteRows                       *)
(***************************************************************************)
\* type fakeUpdate struct { ID, CompanyID, Name string; Scores int; IsActive bool }
fakeUpdate ==
    <<SField("ID", "id", "", "string"), SField("CompanyID", "company_id", "", "string"),
      SField("Name", "name", "", "string"), SField("Scores", "scores", "", "int"),
      SField("IsActive", "is_active", "", "bool")>>

\* The columns of the table CreateTable makes for fakeUpdate
CrudCols ==
    LET mod == parseStruct("fake_update", fakeUpdate, TRUE)
    IN  {mod.Fields[j].PGName : j \in 1..Len(mod.Fields)}

RECURSIVE SetToSeq(_)
SetToSeq(S) == IF S = {} THEN <<>>
               ELSE LET x == CHOOSE y \in S : TRUE IN <<x>> \o SetToSeq(S \ {x})

\* The guard left out: every built statement goes to the database
RefusesNothing(stmt) == FALSE

\* The guard both operations put before the statement (lines 252 and 504)
RefusesAllRows(stmt) == ~stmt.IsQueryAll /\ ~ContainsKw(stmt.Query, "WHERE")

CrudRet(call, err, query, sent, affected) ==
    [call EXCEPT !.phase = "done", !.err = err, !.query = query, !.sent = sent,
                 !.affected = affected]

\* DeleteRows(&fakeUpdate{}, opts...)
DeleteRows ==
    /\ crudCall.phase = "call" /\ crudCall.op = "DeleteRows"
    /\ \E b \in {Build(crudCall.opts, OpDelete, <<>>)} :
         IF b.err \/ RefusesAllRows(b.stmt)
         THEN /\ crudCall' = CrudRet(crudCall, TRUE, b.stmt.Query, 0, 0)
              /\ table' = table
         ELSE \E x \in {ExecDelete(table, CrudCols, b.stmt.Query, b.stmt.Args)} :
                /\ crudCall' = CrudRet(crudCall, x.err, b.stmt.Query, 1, x.affected)
                /\ table' = x.rows

\* The values of dataMap in the order of the fields (lines 240-246)
UpdateArgs(fields, dataMap) ==
    LET have == SelectSeq(fields, LAMBDA f : f.PGName \in DOMAIN dataMap)
    IN  [j \in 1..Len(have) |-> dataMap[have[j].PGName]]

\* UpdateRows(&fakeUpdate{}, dataMap, opts...)
UpdateRows ==
    /\ crudCall.phase = "call" /\ crudCall.op = "UpdateRows"
    /\ IF DOMAIN crudCall.dataMap = {} \/ Len(crudCall.opts) = 0
       THEN /\ crudCall' = CrudRet(crudCall, TRUE, <<>>, 0, 0)
            /\ table' = table
       ELSE \E fnp \in {GetFieldsNoPK(parseStruct("fake_update", fakeUpdate, TRUE),
                                       SetToSeq(DOMAIN crudCall.dataMap))} :
            IF fnp.panic
            THEN /\ crudCall' = [CrudRet(crudCall, TRUE, <<>>, 0, 0) EXCEPT !.panic = TRUE]
                 /\ table' = table
            ELSE \E b \in {Build(crudCall.opts, OpUpdate,
                                  UpdateArgs(fnp.fields, crudCall.dataMap))} :
                 IF b.err \/ RefusesAllRows(b.stmt)
                 THEN /\ crudCall' = CrudRet(crudCall, TRUE, b.stmt.Query, 0, 0)
                      /\ table' = table
                 ELSE \E x \in {ExecUpdate(table, CrudCols, fnp.fields,
                                           b.stmt.Query, b.stmt.Args)} :
                        /\ crudCall' = CrudRet(crudCall, x.err, b.stmt.Query, 1, x.affected)
                        /\ table' = x.rows

(***************************************************************************)
(* Select and Get up to the projection of the fields: Build, parseModel,   *)
(* model.getFields(stmt.Columns)                                           *)
(***************************************************************************)
\* type selectTest struct { ID, Name, Color string; Height int; Created time.Time }
selectTest ==
    <<SField("ID", "id", "", "string"), SField("Name", "name", "", "string"),
      SField("Color", "color", "", "string"), SField("Height", "height", "", "int"),
      SField("Created", "created", "", "time")>>

\* type simpleAddress struct { Street, State, City, ID string }
simpleAddress ==
    <<SField("Street", "street", "", "string"), SField("State", "state", "", "string"),
      SField("City", "city", "", "string"), SField("ID", "id", "", "string")>>

\* type socialJoin struct { UserID string `pgc:"pk"`; FBID string `pgc_name:"fb_id"`;
\* TwitterID string }
socialJoin ==
    <<SField("UserID", "user_id", "pk", "string"), SField("FBID", "fb_id", "", "string"),
      SField("TwitterID", "twitter_id", "", "string")>>

\* type customData struct { UserID string; TotalPrice int `pgc_name:"SUM(price) as
\* total_price"` }: a record type with no primary key
customData ==
    <<SField("UserID", "user_id", "", "string"),
      SField("TotalPrice", "SUM(price) as total_price", "", "int")>>

\* Record types that declare something other than a column before the primary
\* key (README, Struct Tags): a skipped field, a join slot, the PGC sentinel
\* type auditedUser struct { Password string `pgc:"-"`; ID, Name, Color string }
auditedUser ==
    <<SField("Password", "password", "-", "string"), SField("ID", "id", "", "string"),
      SField("Name", "name", "", "string"), SField("Color", "color", "", "string")>>

\* type orderedUser struct { Orders []orderJoin `pgc:"join"`; ID, Name string }
orderedUser ==
    <<SField("Orders", "orders", "join", "orderJoin"), SField("ID", "id", "", "string"),
      SField("Name", "name", "", "string")>>

\* type linkedUser struct { PGC struct{} `pgc:"many_to_many"`; ID, Name string }
linkedUser ==
    <<SField("PGC", "pgc", "many_to_many", "struct"), SField("ID", "id", "", "string"),
      SField("Name", "name", "", "string")>>

\* type fakeInsert2 struct { ID, Name string }
fakeInsert2 == <<SField("ID", "id", "", "string"), SField("Name", "name", "", "string")>>

\* type fakeInsert1 struct { ID, Name string }
fakeInsert1 == <<SField("ID", "id", "", "string"), SField("Name", "name", "", "string")>>

\* type insertMeth struct { ID, Name string } with a method
\* func (insertMeth) TableName() string { return "fake_insert2" }
insertMeth == <<SField("ID", "id", "", "string"), SField("Name", "name", "", "string")>>

StructOf(typeName) ==
    CASE typeName = "selectTest"    -> selectTest
      [] typeName = "fakeInsert2"   -> fakeInsert2
      [] typeName = "fakeInsert1"   -> fakeInsert1
      [] typeName = "insertMeth"    -> insertMeth
      [] typeName = "auditedUser"   -> auditedUser
      [] typeName = "orderedUser"   -> orderedUser
      [] typeName = "linkedUser"    -> linkedUser
      [] typeName = "simpleAddress" -> simpleAddress
      [] typeName = "socialJoin"    -> socialJoin
      [] typeName = "customData"    -> customData

FieldsRet(call, err, panic, fields) ==
    [call EXCEPT !.phase = "done", !.err = err, !.panic = panic, !.fields = fields]

\* Select(&[]T{}, pgcq.Columns(cols...)) and Get(&T{}, pgcq.Columns(cols...)),
\* up to the rendering of the statement
SelectFields ==
    /\ fieldsCall.phase = "call"
    /\ \E b \in {Build(<<Columns(fieldsCall.columns)>>, OpSelect, <<>>)} :
       \E mod \in {parseStruct(fieldsCall.type, StructOf(fieldsCall.type),
                               fieldsCall.op = "Get")} :
       \E f \in {getFields(mod, b.stmt.Columns)} :
         fieldsCall' =
             IF b.err THEN FieldsRet(fieldsCall, TRUE, FALSE, <<>>)
             ELSE IF mod.panic \/ f.panic THEN FieldsRet(fieldsCall, FALSE, TRUE, <<>>)
             ELSE FieldsRet(fieldsCall, FALSE, FALSE,
                            [j \in 1..Len(f.fields) |-> f.fields[j].PGName])

MaxCols == 2

ColumnNames == {"id", "name", "some column"}

\* Before the call: the record type and the column list the caller passes
FieldsInputs ==
    {[phase |-> "call", op |-> op, type |-> t, columns |-> cols,
      err |-> FALSE, panic |-> FALSE, fields |-> <<>>] :
        op \in {"Select", "Get"},
        t \in {"selectTest", "simpleAddress", "socialJoin", "customData",
               "auditedUser", "orderedUser", "linkedUser"},
        cols \in SeqsUpTo(ColumnNames, MaxCols)}

(***************************************************************************)
(* rawSelect: the loop that scans the rows of a SELECT with joins into the *)
(* destination slice.  The parent is userJoin { ID; Subscriptions          *)
(* []subscriptionJoin `pgc:"join"`; Social *socialJoin `pgc:"join"` }; a   *)
(* result row carries the parent's PK and the PK of each joined record,    *)
(* empty where the LEFT JOIN matched nothing (COALESCE default).           *)
(***************************************************************************)
joinMods ==
    <<[name |-> "subscriptionJoin", slot |-> "Subscriptions", kind |-> "slice"],
      [name |-> "socialJoin",       slot |-> "Social",        kind |-> "ptr"]>>

\* reflect.New(mod.ReflectType.Elem()) after rows.Scan filled the parent's fields
NewRowModel(pk) == [ID |-> pk, Subscriptions |-> <<>>, Social |-> ""]

\* var prevRow struct {...}: a nil map finds no key, as a map of empty lists does
NewPrevRow ==
    [modPK |-> "", model |-> NewRowModel(""),
     parsedJoinModels |-> [subscriptionJoin |-> <<>>, socialJoin |-> <<>>]]

\* Every row starts a parent of its own
rowNeverTheSame(modPK, prevPK) == FALSE

\* rowIsTheSame := modPK != "" && modPK == prevRow.modPK
rowIsTheSame(modPK, prevPK) == modPK # "" /\ modPK = prevPK

\* The loop over joinMods for one scanned row, from join i on
RECURSIVE JoinLoop(_, _, _, _, _)
JoinLoop(i, row, same, rowModel, prevRow) ==
    IF i > Len(joinMods) THEN [rowModel |-> rowModel, prevRow |-> prevRow]
    ELSE LET jm        == joinMods[i]
             joinPKVal == row.joinPK[i]
             parsed    == prevRow.parsedJoinModels[jm.name]
             modelAlreadySet == \E k \in 1..Len(parsed) : parsed[k] = joinPKVal
             prevRow1  == [prevRow EXCEPT
                              !.parsedJoinModels[jm.name] = Append(@, joinPKVal)]
         IN  IF joinPKVal = "" THEN JoinLoop(i + 1, row, same, rowModel, prevRow)
             ELSE IF jm.kind # "slice"
             THEN JoinLoop(i + 1, row, same,
                           [rowModel EXCEPT ![jm.slot] = joinPKVal], prevRow)
             ELSE IF modelAlreadySet
             THEN JoinLoop(i + 1, row, same, rowModel, prevRow)
             ELSE IF same
             THEN JoinLoop(i + 1, row, same, rowModel,
                           [prevRow1 EXCEPT !.model[jm.slot] = Append(@, joinPKVal)])
             ELSE JoinLoop(i + 1, row, same,
                           [rowModel EXCEPT ![jm.slot] = <<joinPKVal>>], prevRow1)

\* The body of for rows.Next() {...} for the next row of the scan s
ScanOne(s) ==
    LET row      == s.rows[s.pos + 1]
        modPK    == row.pk
        same     == rowIsTheSame(modPK, s.prevRow.modPK)
        r        == JoinLoop(1, row, same, NewRowModel(row.pk), s.prevRow)
        prevRow1 == IF ~same
                    THEN [r.prevRow EXCEPT !.model = r.rowModel, !.modPK = modPK]
                    ELSE r.prevRow
        dest1    == IF ~same THEN Append(s.dest, r.rowModel)
                    ELSE [s.dest EXCEPT ![Len(s.dest)] = prevRow1.model]
    IN  [s EXCEPT !.pos = @ + 1, !.modPK = modPK, !.prevRow = prevRow1, !.dest = dest1]

\* One iteration of for rows.Next() {...}
ScanRow ==
    /\ sel.phase = "scan" /\ sel.pos < Len(sel.rows)
    /\ sel' = ScanOne(sel)

\* rawSelect from the scan s to its return
RECURSIVE ScanAll(_)
ScanAll(s) == IF s.pos = Len(s.rows) THEN s ELSE ScanAll(ScanOne(s))

\* rows.Next() reports no more rows: rawSelect returns
CloseRows ==
    /\ sel.phase = "scan" /\ sel.pos = Len(sel.rows)
    /\ sel' = [sel EXCEPT !.phase = "done"]

MaxChildren == 4

ChildNames == <<"s1", "s2", "s3", "s4", "s5", "s6">>
Children   == {ChildNames[i] : i \in 1..MaxChildren}

\* The parents of the table, in the order the statement returns them
ParentLists == {<<"u1", "u2", "u3">>, <<"u1", "", "u2">>, <<"u1", "u2">>}

Range(f) == {f[x] : x \in DOMAIN f}

\* One to many: every child record has at most one parent
OneToMany(parents) ==
    {{<<f[c], c>> : c \in {x \in Children : f[x] # "none"}} :
        f \in [Children -> Range(parents) \cup {"none"}]}

\* Many to many through a bridge record: any child may be joined to any parent
ManyToMany(parents) == SUBSET (Range(parents) \X {"s1", "s2"})

\* The children joined to parent p, in the order the statement returns them
ChildrenOf(p, rel) == SelectSeq(ChildNames, LAMBDA c : <<p, c>> \in rel)

\* The rows of the LEFT JOIN for the parents from position i on
RECURSIVE ResultRows(_, _, _, _)
ResultRows(parents, i, rel, social) ==
    IF i > Len(parents) THEN <<>>
    ELSE LET p   == parents[i]
             cs  == ChildrenOf(p, rel)
             spk == IF p \in social THEN p ELSE ""
             own == IF Len(cs) = 0 THEN <<[pk |-> p, joinPK |-> <<"", spk>>]>>
                    ELSE [k \in 1..Len(cs) |-> [pk |-> p, joinPK |-> <<cs[k], spk>>]]
         IN  own \o ResultRows(parents, i + 1, rel, social)

\* Before the scan: the records in the tables and the rows the query returns
SelInputsOf(ps) ==
    {[phase |-> "scan", parents |-> ps, rel |-> rel, social |-> so,
      rows |-> ResultRows(ps, 1, rel, so), pos |-> 0, modPK |-> "",
      prevRow |-> NewPrevRow, dest |-> <<>>] :
        so \in {{}, {"u1"}}, rel \in OneToMany(ps) \cup ManyToMany(ps)}

SelInputs == UNION {SelInputsOf(ps) : ps \in ParentLists}

(***************************************************************************)
(* parseModel called from several goroutines: the cache check, the build   *)
(* of the model, and modelSyncMap.Set.  A model is known by its identity   *)
(* (the pointer &model{...}), numbered in the order of allocation; 0 is    *)
(* "no entry".  A map read that overlaps a map write of another goroutine  *)
(* is a data race: it finds the old entry or the new one, or the runtime   *)
(* stops the program (fatal error: concurrent map read and map write).     *)
(***************************************************************************)
NThreads == 2

Threads == 1..NThreads

TypeNames == {"*selectTest", "*simpleAddress"}

\* cachedModelMap.Init()
NewModelSyncMap ==
    [modelMap |-> [n \in TypeNames |-> 0], mux |-> 0, writer |-> 0,
     sets |-> [n \in TypeNames |-> 0], allocated |-> 0, fatal |-> FALSE]

Running(t, pc) == ~cachedModelMap.fatal /\ threads[t].pc = pc

\* cachedModelMap.Get(typeName): reads modelMap, takes no lock
CacheGet(t) ==
    /\ Running(t, "get")
    /\ LET name == threads[t].typeName
           w    == cachedModelMap.writer
           race == w # 0 /\ w # t
           seen == IF race /\ threads[w].typeName = name
                   THEN {cachedModelMap.modelMap[name], threads[w].mod}
                   ELSE {cachedModelMap.modelMap[name]}
       IN  \/ \E val \in seen :
                /\ threads' = [threads EXCEPT ![t] =
                                 IF val # 0 THEN [@ EXCEPT !.pc = "done", !.ret = val]
                                 ELSE [@ EXCEPT !.pc = "build"]]
                /\ UNCHANGED cachedModelMap
           \/ /\ race
              /\ cachedModelMap' = [cachedModelMap EXCEPT !.fatal = TRUE]
              /\ UNCHANGED threads

\* mod := &model{...} and the loop over the struct's fields
BuildModel(t) ==
    /\ Running(t, "build")
    /\ cachedModelMap' = [cachedModelMap EXCEPT !.allocated = @ + 1]
    /\ threads' = [threads EXCEPT ![t] =
                     [@ EXCEPT !.pc = "lock", !.mod = cachedModelMap.allocated + 1]]

\* Set: mm.mux.Lock()
SetLock(t) ==
    /\ Running(t, "lock")
    /\ cachedModelMap.mux = 0
    /\ cachedModelMap' = [cachedModelMap EXCEPT !.mux = t]
    /\ threads' = [threads EXCEPT ![t].pc = "write"]

\* Set: mm.modelMap[name] = m, from its start ...
SetWriteBegin(t) ==
    /\ Running(t, "write")
    /\ cachedModelMap' = [cachedModelMap EXCEPT !.writer = t]
    /\ threads' = [threads EXCEPT ![t].pc = "writing"]

\* ... to its end
SetWriteEnd(t) ==
    /\ Running(t, "writing")
    /\ cachedModelMap' =
           [cachedModelMap EXCEPT !.writer = 0,
                                  !.modelMap[threads[t].typeName] = threads[t].mod,
                                  !.sets[threads[t].typeName] = @ + 1]
    /\ threads' = [threads EXCEPT ![t].pc = "unlock"]

\* Set: mm.mux.Unlock(); parseModel returns mod
SetUnlock(t) ==
    /\ Running(t, "unlock")
    /\ cachedModelMap' = [cachedModelMap EXCEPT !.mux = 0]
    /\ threads' = [threads EXCEPT ![t] = [@ EXCEPT !.pc = "done", !.ret = threads[t].mod]]

\* Before the calls: each goroutine is about to call parseModel for a type
ThreadInputs ==
    [Threads -> {[pc |-> "get", typeName |-> n, mod |-> 0, ret |-> 0] : n \in TypeNames}]

(***************************************************************************)
(* Schema migrations.  The database holds the table the migrations work    *)
(* on ("user"), the bookkeeping table pgc_schema_migration (primary key    *)
(* version) and the table pgc_migration_log.  A migration's SQL is a       *)
(* sequence of statements; the empty sequence is the empty string.         *)
(***************************************************************************)
DefaultVersion == "0000-00-00:00:00:00"

V1 == "2017-09-15:15:08:52"
V2 == "2017-09-16:15:08:52"
V3 == "2017-09-17:15:08:52"
V4 == "2017-09-18:15:08:52"
NotRegistered == "2018-01-01:00:00:00"

\* The characters of a version string that tell the versions apart
Chars(v) ==
    CASE v = DefaultVersion -> <<0, 0, 0, 0, 0, 0, 0, 0>>
      [] v = V1             -> <<2, 0, 1, 7, 0, 9, 1, 5>>
      [] v = V2             -> <<2, 0, 1, 7, 0, 9, 1, 6>>
      [] v = V3             -> <<2, 0, 1, 7, 0, 9, 1, 7>>
      [] v = V4             -> <<2, 0, 1, 7, 0, 9, 1, 8>>
      [] v = NotRegistered  -> <<2, 0, 1, 8, 0, 1, 0, 1>>

\* a < b for strings, character by character
RECURSIVE LexLess(_, _)
LexLess(a, b) ==
    IF Len(b) = 0 THEN FALSE
    ELSE IF Len(a) = 0 THEN TRUE
    ELSE IF Head(a) # Head(b) THEN Head(a) < Head(b)
    ELSE LexLess(Tail(a), Tail(b))

\* sort.Strings
RECURSIVE SortStrings(_)
SortStrings(S) ==
    IF S = {} THEN <<>>
    ELSE LET m == CHOOSE x \in S : \A y \in S \ {x} : LexLess(Chars(x), Chars(y))
         IN  <<m>> \o SortStrings(S \ {m})

\* sort.Strings turned around
SortStringsDesc(S) ==
    LET a == SortStrings(S) IN [i \in 1..Len(a) |-> a[Len(a) + 1 - i]]

\* Statements
CreateUser    == [op |-> "create", rows |-> {}]
DropUser      == [op |-> "drop",   rows |-> {}]
InsertUser(r) == [op |-> "insert", rows |-> r]
DeleteUser(r) == [op |-> "delete", rows |-> r]

NoTable == [exists |-> FALSE, rows |-> {}]

\* A database with none of the tables
FreshDB == [user |-> NoTable, mig |-> NoTable, log |-> [exists |-> FALSE, rows |-> <<>>]]

\* One statement of a migration, as PostgreSQL answers it: 42P07 for CREATE of a
\* table that exists, 42P01 for a table that does not, 23505 for a key that does
ExecStmt(st, d) ==
    LET u == d.user IN
    CASE st.op = "create" ->
            IF u.exists THEN [err |-> TRUE, db |-> d]
            ELSE [err |-> FALSE, db |-> [d EXCEPT !.user = [exists |-> TRUE, rows |-> {}]]]
      [] st.op = "drop" ->
            IF ~u.exists THEN [err |-> TRUE, db |-> d]
            ELSE [err |-> FALSE, db |-> [d EXCEPT !.user = NoTable]]
      [] st.op = "insert" ->
            IF ~u.exists \/ st.rows \cap u.rows # {} THEN [err |-> TRUE, db |-> d]
            ELSE [err |-> FALSE, db |-> [d EXCEPT !.user.rows = @ \cup st.rows]]
      [] st.op = "delete" ->
            IF ~u.exists THEN [err |-> TRUE, db |-> d]
            ELSE [err |-> FALSE, db |-> [d EXCEPT !.user.rows = @ \ st.rows]]

\* Exec(sql): the statements in order, up to the first that fails
RECURSIVE ExecSQL(_, _)
ExecSQL(sql, d) ==
    IF Len(sql) = 0 THEN [err |-> FALSE, db |-> d]
    ELSE LET r == ExecStmt(Head(sql), d)
         IN  IF r.err THEN r ELSE ExecSQL(Tail(sql), r.db)

\* h.migrations[name] = migration{upSQL, downSQL, isDefault: name == DefaultVersion}
RegisterMigration(h, name, upSQL, downSQL) ==
    [v \in DOMAIN h \cup {name} |->
        IF v = name
        THEN [upSQL |-> upSQL, downSQL |-> downSQL, isDefault |-> name = DefaultVersion]
        ELSE h[v]]

\* MigrationVersions, in descending order
MigrationVersionsDesc(h) == SortStringsDesc(DOMAIN h)

\* MigrationVersions: the registered versions, sorted
MigrationVersions(h) == SortStrings(DOMAIN h)

\* The migrations TestMigrationHandler registers
TestMigrations ==
    RegisterMigration(
        RegisterMigration(
            RegisterMigration(<<>>, V1, <<CreateUser>>, <<DropUser>>),
            V2, <<InsertUser({1, 2})>>, <<DeleteUser({1, 2})>>),
        DefaultVersion, <<InsertUser({3})>>, <<DeleteUser({3})>>)

\* ... with a migration of two statements and no down SQL
MoreMigrations ==
    RegisterMigration(TestMigrations, V3, <<InsertUser({4}), InsertUser({3})>>, <<>>)

\* ... with a migration that has no up SQL
EmptyUpMigrations ==
    RegisterMigration(TestMigrations, V4, <<>>, <<DropUser>>)

\* A statement sent to the database: what it is, the connection it went over
\* (the transaction's or one of the pool's), the version, whether it succeeded
Ev(k, conn, version, ok) == [k |-> k, conn |-> conn, version |-> version, ok |-> ok]

\* What an operation returns and leaves behind
MigRet(err, panic, d, trace) == [err |-> err, panic |-> panic, db |-> d, trace |-> trace]

\* NewLog(action, message, version)
NewLog(action, version) == [Action |-> action, Version |-> version, Success |-> TRUE]

\* Select(&existing, pgcq.Order("version", pgcq.ASC)): Build adds the default LIMIT
SelectVersions(d) ==
    LET sorted == SortStrings(d.mig.rows)
    IN  SubSeq(sorted, 1, IF Len(sorted) < DefaultSelectLimit THEN Len(sorted)
                          ELSE DefaultSelectLimit)

\* Insert(&SchemaMigration{Version: version}): version is the primary key
InsertVersion(d, version) ==
    IF ~d.mig.exists \/ version \in d.mig.rows THEN [err |-> TRUE, db |-> d]
    ELSE [err |-> FALSE, db |-> [d EXCEPT !.mig.rows = @ \cup {version}]]

\* DeleteRows(&SchemaMigration{}, pgcq.All())
DeleteAllVersionRows(rows, version) == {}

\* DeleteRows(&SchemaMigration{}, pgcq.Equal("version", version))
DeleteVersionRows(rows, version) == rows \ {version}

\* A transaction that keeps what it did when its function fails
TxEndNoRollback(err, committed, working) == working

\* tx.Rollback() when the function failed, tx.Commit() otherwise
TxEnd(err, committed, working) == IF err THEN committed ELSE working

\* execInTx(version, migrationFunc) on the committed database d; r is what
\* migrationFunc returned and did to the transaction's view, which started as d
execInTx(version, d, r) ==
    [err |-> r.err, db |-> TxEnd(r.err, d, r.db),
     trace |-> <<Ev("begin", "tx", version, TRUE)>> \o r.trace
               \o <<Ev(IF r.err THEN "rollback" ELSE "commit", "tx", version, TRUE)>>]

\* migrationFunc of UpdateSchema: the up SQL, then the bookkeeping row
UpdateFunc(version, m, w) ==
    LET e == ExecSQL(m.upSQL, w)
        i == InsertVersion(e.db, version)
    IN  IF e.err THEN [err |-> TRUE, db |-> e.db,
                       trace |-> <<Ev("exec", "tx", version, FALSE)>>]
        ELSE [err |-> i.err, db |-> i.db,
              trace |-> <<Ev("exec", "tx", version, TRUE),
                          Ev("insert", "tx", version, ~i.err)>>]

\* The loop of UpdateSchema over the sorted versions
RECURSIVE UpdateLoop(_, _, _, _, _, _)
UpdateLoop(h, versions, existingMap, execDefault, d, trace) ==
    IF Len(versions) = 0 THEN MigRet(FALSE, FALSE, d, trace)
    ELSE LET version == Head(versions)
             m       == h[version]
             next(d1, t1) == UpdateLoop(h, Tail(versions), existingMap, execDefault, d1, t1)
         IN  IF version \in existingMap THEN next(d, trace)
             ELSE IF m.upSQL = <<>> THEN MigRet(TRUE, FALSE, d, trace)
             ELSE IF m.isDefault /\ ~execDefault THEN next(d, trace)
             ELSE LET r == execInTx(version, d, UpdateFunc(version, m, d))
                  IN  IF r.err THEN MigRet(TRUE, FALSE, r.db, trace \o r.trace)
                      ELSE next(r.db, trace \o r.trace)

\* UpdateSchema(execDefault); MustSelect panics when the bookkeeping table is missing
RunUpdateSchema(h, execDefault, d) ==
    IF ~d.mig.exists THEN MigRet(FALSE, TRUE, d, <<>>)
    ELSE UpdateLoop(h, MigrationVersions(h), Range(SelectVersions(d)), execDefault, d, <<>>)

\* "default" is the literal the callers pass for the default version
Resolve(version) == IF version = "default" THEN DefaultVersion ELSE version

\* migrationFunc of ExecuteMigration: the up SQL over the transaction, the look
\* for the bookkeeping row with the package's Get (a connection of the pool: it
\* sees the committed database d), the insert over the transaction
ExecuteFunc(version, m, w, d) ==
    LET e     == ExecSQL(m.upSQL, w)
        found == version \in d.mig.rows
        i     == InsertVersion(e.db, version)
    IN  IF e.err THEN [err |-> TRUE, db |-> e.db,
                       trace |-> <<Ev("exec", "tx", version, FALSE)>>]
        ELSE IF ~d.mig.exists
        THEN [err |-> TRUE, db |-> e.db,
              trace |-> <<Ev("exec", "tx", version, TRUE), Ev("get", "pool", version, FALSE)>>]
        ELSE IF found
        THEN [err |-> FALSE, db |-> e.db,
              trace |-> <<Ev("exec", "tx", version, TRUE), Ev("get", "pool", version, TRUE)>>]
        ELSE [err |-> i.err, db |-> i.db,
              trace |-> <<Ev("exec", "tx", version, TRUE), Ev("get", "pool", version, TRUE),
                          Ev("insert", "tx", version, ~i.err)>>]

\* ExecuteMigration(version)
RunExecuteMigration(h, version, d) ==
    LET v == Resolve(version) IN
    IF v \notin DOMAIN h THEN MigRet(TRUE, FALSE, d, <<>>)
    ELSE IF h[v].upSQL = <<>> THEN MigRet(TRUE, FALSE, d, <<>>)
    ELSE LET r == execInTx(v, d, ExecuteFunc(v, h[v], d, d))
         IN  MigRet(r.err, FALSE, r.db, r.trace)

\* createTableIfNotExists on the two tables, the first log row, the default schema
RunInitSchema(h, execDefault, d) ==
    LET created == ~d.log.exists
        d1 == [d EXCEPT !.mig = IF @.exists THEN @ ELSE [exists |-> TRUE, rows |-> {}],
                        !.log = [exists |-> TRUE,
                                 rows |-> Append(IF @.exists THEN @.rows ELSE <<>>,
                                                 NewLog("init", ""))]]
    IN  IF created /\ execDefault
        THEN LET r == RunExecuteMigration(h, "default", d1)
             IN  MigRet(r.err, FALSE, r.db, r.trace)
        ELSE MigRet(FALSE, FALSE, d1, <<>>)

\* migrationFunc of rollback: the down SQL, then the delete of the bookkeeping row
RollbackFunc(version, m, w) ==
    LET e == ExecSQL(m.downSQL, w)
    IN  IF e.err THEN [err |-> TRUE, db |-> e.db,
                       trace |-> <<Ev("exec", "tx", version, FALSE)>>]
        ELSE IF ~e.db.mig.exists
        THEN [err |-> TRUE, db |-> e.db,
              trace |-> <<Ev("exec", "tx", version, TRUE), Ev("delete", "tx", version, FALSE)>>]
        ELSE [err |-> FALSE,
              db |-> [e.db EXCEPT !.mig.rows = DeleteVersionRows(@, version)],
              trace |-> <<Ev("exec", "tx", version, TRUE), Ev("delete", "tx", version, TRUE)>>]

\* rollback(version, m)
rollback(version, m, d) ==
    IF m.downSQL = <<>> THEN MigRet(TRUE, FALSE, d, <<>>)
    ELSE LET r == execInTx(version, d, RollbackFunc(version, m, d))
         IN  MigRet(r.err, FALSE, r.db, r.trace)

\* MustInsert(sLog): panics when the log table is missing
MustInsertLog(r, sLog) ==
    IF ~r.db.log.exists THEN MigRet(FALSE, TRUE, r.db, r.trace)
    ELSE MigRet(FALSE, FALSE, [r.db EXCEPT !.log.rows = Append(@, sLog)], r.trace)

\* Rollback(version)
RunRollback(h, version, d) ==
    LET v == Resolve(version) IN
    IF v \notin DOMAIN h THEN MigRet(TRUE, FALSE, d, <<>>)
    ELSE LET r == rollback(v, h[v], d)
         IN  IF r.err THEN r ELSE MustInsertLog(r, NewLog("rollback", v))

\* The latest version the registry holds, recorded or not
RunRollbackLatestRegistered(h, d) ==
    IF ~d.mig.exists THEN MigRet(TRUE, FALSE, d, <<>>)
    ELSE IF d.mig.rows = {} THEN MigRet(FALSE, FALSE, d, <<>>)
    ELSE LET r == rollback(MigrationVersionsDesc(h)[1], h[MigrationVersionsDesc(h)[1]], d)
         IN  IF r.err THEN r
             ELSE MustInsertLog(r, NewLog("rollback", MigrationVersionsDesc(h)[1]))

\* RollbackLatest(): Get(latestVersion, pgcq.Order("version", pgcq.DESC)) finds
\* the highest recorded version
RunRollbackLatest(h, d) ==
    IF ~d.mig.exists THEN MigRet(TRUE, FALSE, d, <<>>)
    ELSE IF d.mig.rows = {} THEN MigRet(FALSE, FALSE, d, <<>>)
    ELSE IF SortStringsDesc(d.mig.rows)[1] \notin DOMAIN h THEN MigRet(TRUE, FALSE, d, <<>>)
    ELSE LET r == rollback(SortStringsDesc(d.mig.rows)[1],
                           h[SortStringsDesc(d.mig.rows)[1]], d)
         IN  IF r.err THEN r
             ELSE MustInsertLog(r, NewLog("rollback", SortStringsDesc(d.mig.rows)[1]))

\* reset()
RunReset(d) ==
    IF ~d.mig.exists THEN MigRet(TRUE, FALSE, d, <<>>)
    ELSE MustInsertLog(MigRet(FALSE, FALSE, [d EXCEPT !.mig.rows = {}], <<>>),
                       NewLog("reset", ""))

MaxCalls == 3

\* The operation op was called with these arguments on database db and did r
Called(op, execDefault, version, r) ==
    /\ nCalls < MaxCalls
    /\ ~migCall.panic
    /\ db' = r.db
    /\ migCall' = [op |-> op, execDefault |-> execDefault, version |-> version,
                   before |-> db, err |-> r.err, panic |-> r.panic, trace |-> r.trace]
    /\ nCalls' = nCalls + 1
    /\ UNCHANGED mh

VersionArgs == DOMAIN mh \cup {"default", NotRegistered}

InitSchema == \E e \in BOOLEAN : Called("InitSchema", e, "", RunInitSchema(mh, e, db))

UpdateSchema == \E e \in BOOLEAN : Called("UpdateSchema", e, "", RunUpdateSchema(mh, e, db))

ExecuteMigration ==
    \E v \in VersionArgs : Called("ExecuteMigration", FALSE, v, RunExecuteMigration(mh, v, db))

Rollback == \E v \in VersionArgs : Called("Rollback", FALSE, v, RunRollback(mh, v, db))

RollbackLatest == Called("RollbackLatest", FALSE, "", RunRollbackLatest(mh, db))

reset == Called("reset", FALSE, "", RunReset(db))

NoMigCall ==
    [op |-> "none", execDefault |-> FALSE, version |-> "", before |-> FreshDB,
     err |-> FALSE, panic |-> FALSE, trace |-> <<>>]

MaxCrudOpts == 2

CrudOpts ==
    {Equal("company_id", "c1"), Equal("company_id", "c2"), NotEqual("scores", "s0"),
     All, OR(<<>>), Limit(2)}

CrudRows ==
    [id : {"f1", "f2"}, company_id : {"c1", "c2"}, name : {"n1"}, scores : {"s0", "s1"},
     is_active : {"true"}]

\* The tables the rows of which have distinct primary keys
CrudTables == {t \in SUBSET CrudRows : \A r1, r2 \in t : r1.id = r2.id => r1 = r2}

CrudMaps == {<<>>, [scores |-> "s1"], [scores |-> "s0", company_id |-> "c2"]}

\* Before the call: the table, the operation and what the caller passes
CrudInputs(t) ==
    {[phase |-> "call", op |-> op, opts |-> opts, dataMap |-> m, before |-> t,
      err |-> FALSE, query |-> <<>>, sent |-> 0, affected |-> 0, panic |-> FALSE] :
        op \in {"DeleteRows", "UpdateRows"}, opts \in SeqsUpTo(CrudOpts, MaxCrudOpts),
        m \in CrudMaps}

\* Column maps with keys that are no columns of fakeUpdate
UnknownKeyMaps ==
    {[scores |-> "s1"], [scores |-> "s1", nope |-> "x"], [nope |-> "x"],
     [scores |-> "s1", nope |-> "x", none |-> "y"]}

\* Before a call of UpdateRows with such a map
UnknownKeyInputs(t) ==
    {[phase |-> "call", op |-> "UpdateRows", opts |-> opts, dataMap |-> m, before |-> t,
      err |-> FALSE, query |-> <<>>, sent |-> 0, affected |-> 0, panic |-> FALSE] :
        opts \in SeqsUpTo(CrudOpts, MaxCrudOpts), m \in UnknownKeyMaps}

\* The options of a SELECT, alone and inside OR and AND
SelectOnlyOpts ==
    {Limit(2), Offset(1), Order("id", "ASC"), GroupBy(<<"company_id">>),
     Having(<<Equal("scores", "s1")>>), Columns(<<"name">>),
     Join("subscriptionJoin", "c", <<>>)}

MisusedOpts ==
    SelectOnlyOpts \cup {OR(<<Equal("company_id", "c1"), Offset(1)>>), AND(<<Columns(<<"name">>)>>)}

RECURSIVE IsSelectOnly(_)
IsSelectOnly(opt) ==
    \/ opt.k \in {"limit", "offset", "order", "groupby", "having", "columns", "join"}
    \/ opt.k \in {"or", "and"} /\ \E i \in 1..Len(opt.opts) : IsSelectOnly(opt.opts[i])

\* Before a call that passes at least one option of a SELECT
MisuseInputs(t) ==
    {[phase |-> "call", op |-> op, opts |-> opts, dataMap |-> [scores |-> "s1"],
      before |-> t, err |-> FALSE, query |-> <<>>, sent |-> 0, affected |-> 0,
      panic |-> FALSE] :
        op \in {"DeleteRows", "UpdateRows"},
        opts \in {o \in SeqsUpTo(MisusedOpts \cup {Equal("company_id", "c1"), All},
                                 MaxCrudOpts) :
                      \E i \in 1..Len(o) : IsSelectOnly(o[i])}}

(***************************************************************************)
(* pgcq.Build driven with option lists                                     *)
(***************************************************************************)
MaxOpts == 3

Preds == {Equal("name", "a"), NotEqual("descr", "b"), InValues("id", <<"x", "y">>)}

BuildOpts ==
    Preds \cup
    {All, Limit(0), Limit(2), Limit(5), Offset(1), Order("id", "ASC"),
     OR(<<>>), OR(<<Equal("name", "a"), NotEqual("descr", "b")>>),
     GroupBy(<<"name">>), Having(<<Equal("name", "a")>>), Columns(<<"name">>)}

\* Before the call: the option list and the operation a caller passes to Build
BuildInputs ==
    {[called |-> FALSE, opts |-> opts, op |-> op, err |-> FALSE, stmt |-> NewQuery(op, <<>>)] :
        opts \in SeqsUpTo(BuildOpts, MaxOpts), op \in {OpSelect, OpUpdate, OpDelete}}

BuildIdle == [called |-> TRUE, opts |-> <<>>, op |-> "", err |-> FALSE,
              stmt |-> NewQuery("", <<>>)]

\* Nested search conditions: the comparisons, IN, Raw, OR and AND
MaxNested == 2

Leaves ==
    {Equal("name", "blog4"), Equal("descr", "descr3"), NotEqual("name", "n"),
     LessThan("n", "1"), LessOrEqual("n", "2"), GreaterThan("n", "3"),
     GreaterOrEqual("n", "4"), Like("name", "b%"), InValues("id", <<"id1", "id2">>),
     Raw(<<Id("a"), Kw("="), Kw("?"), Kw("or"), Id("b"), Kw("="), Kw("?")>>, <<"r1", "r2">>),
     Raw(<<Id("a"), Kw("="), Kw("?")>>, <<>>)}

\* The conditions OR and AND are given
E1 == Equal("name", "blog4")
E2 == Equal("descr", "descr3")
I2 == InValues("id", <<"id1", "id2">>)
R1 == Raw(<<Id("a"), Kw("="), Kw("?")>>, <<"r1">>)

Inner == {<<>>, <<E2>>, <<E2, I2>>, <<I2, R1>>, <<R1, E1>>}

\* OR and AND over conditions, and over conditions and an AND / OR
NestedOpts ==
    Leaves
    \cup {OR(o) : o \in Inner} \cup {AND(o) : o \in Inner}
    \cup {OR(<<E1, AND(<<E2, I2>>)>>), AND(<<OR(<<R1, E1>>), I2>>),
          OR(<<AND(<<I2, R1>>), OR(<<E2, I2>>)>>), AND(<<E1, OR(<<>>)>>)}

NestedInputs ==
    {[called |-> FALSE, opts |-> opts, op |-> op, err |-> FALSE, stmt |-> NewQuery(op, <<>>)] :
        opts \in SeqsUpTo(NestedOpts, MaxNested), op \in {OpSelect, OpDelete}}

\* The call of pgcq.Build(opts, op)
DoBuild ==
    /\ ~built.called
    /\ LET r == Build(built.opts, built.op, <<>>)
       IN  built' = [built EXCEPT !.called = TRUE, !.err = r.err, !.stmt = r.stmt]

(***************************************************************************)
(* Insert, Update, Delete and Get by primary key.  A record is the value   *)
(* of a struct (Go field name -> value); the database holds, per table,    *)
(* the set of its rows (column -> value); "id" is the primary key of each  *)
(* table, as CreateTable makes it.                                         *)
(***************************************************************************)
LimitInsert == 1000

\* model.setTableName: the result of the TableName method, or parseName(StructName)
TableNameOf(typeName) ==
    CASE typeName = "fakeInsert2" -> "fake_insert2"
      [] typeName = "fakeInsert1" -> "fake_insert1"
      [] typeName = "insertMeth"  -> "fake_insert2"

\* parseModel(structPtr, true)
ModelOf(typeName) == parseStruct(TableNameOf(typeName), StructOf(typeName), TRUE)

TableNames == {"fake_insert2", "fake_insert1"}
TableCols  == {"id", "name"}

\* reflect.Indirect(rowModel).Field(pos)
FieldVal(typeName, rec, pos) == rec[StructOf(typeName)[pos + 1].GoName]

\* model.getVals(rowModel, fields)
getVals(typeName, rec, fields) ==
    [j \in 1..Len(fields) |-> FieldVal(typeName, rec, fields[j].FieldPos)]

\* model.getPK(rowModel)
getPK(typeName, mod, rec) == FieldVal(typeName, rec, mod.PKPos)

\* WHERE "<pk>" = $n
WherePK(mod, n) == <<Kw("WHERE"), Id(mod.PKName), Kw("="), Ph(n)>>

\* The items numbered from one in the placeholders
InsertSQLFromOne(model, mods) ==
    [table  |-> model.TableName,
     cols   |-> [j \in 1..Len(model.Fields) |-> model.Fields[j].PGName],
     tuples |-> [k \in 1..Len(mods) |->
                    [i \in 1..Len(mods[k].Fields) |->
                        i + Len(model.Fields) * k]]]

\* insertTemplate: the columns of the first item's model, and for item
\* itemNum and its field i the placeholder $(i + 1 + len(model.Fields) * itemNum)
InsertSQL(model, mods) ==
    [table  |-> model.TableName,
     cols   |-> [j \in 1..Len(model.Fields) |-> model.Fields[j].PGName],
     tuples |-> [k \in 1..Len(mods) |->
                    [i \in 1..Len(mods[k].Fields) |->
                        i + Len(model.Fields) * (k - 1)]]]

\* The highest placeholder of an INSERT
InsertParams(stmt) ==
    LET phs == UNION {{stmt.tuples[k][i] : i \in 1..Len(stmt.tuples[k])} :
                          k \in 1..Len(stmt.tuples)}
    IN  IF phs = {} THEN 0 ELSE CHOOSE m \in phs : \A x \in phs : x <= m

\* INSERT INTO t (cols) VALUES (...), (...): all the rows or, on an error (a
\* VALUES list that does not fit the columns, a wrong number of arguments, a
\* duplicate primary key), none
ExecInsert(rows, stmt, args) ==
    IF \/ Len(stmt.tuples) = 0 \/ Len(stmt.cols) = 0
       \/ \E k \in 1..Len(stmt.tuples) : Len(stmt.tuples[k]) # Len(stmt.cols)
       \/ InsertParams(stmt) # Len(args)
    THEN [err |-> TRUE, rows |-> rows]
    ELSE LET new == [k \in 1..Len(stmt.tuples) |->
                        [c \in {stmt.cols[i] : i \in 1..Len(stmt.cols)} |->
                            args[stmt.tuples[k][CHOOSE i \in 1..Len(stmt.cols) :
                                                    stmt.cols[i] = c]]]]
             pks == {new[k].id : k \in 1..Len(new)}
         IN  IF \/ Cardinality(pks) # Len(new)
                \/ \E r \in rows : r.id \in pks
             THEN [err |-> TRUE, rows |-> rows]
             ELSE [err |-> FALSE, rows |-> rows \cup {new[k] : k \in 1..Len(new)}]

\* The text of a SELECT's query without its trailing LIMIT clause
NoLimit(query) ==
    IF Len(query) >= 2 /\ query[Len(query) - 1] = Kw("LIMIT")
    THEN SubSeq(query, 1, Len(query) - 2) ELSE query

\* SELECT ... FROM t <query>: the rows of which the statement returns the first
ExecSelect(rows, query, args) ==
    IF \/ ~WellFormedWhere(NoLimit(query), args, TableCols)
       \/ ParamCount(0, NoLimit(query)) # Len(args)
    THEN [err |-> TRUE, rows |-> {}]
    ELSE [err |-> FALSE, rows |-> {r \in rows : RowMatches(r, NoLimit(query), args)}]

\* The value of a record of { ID, Name string }, and an item passed to a call
Rec(id, name)       == [ID |-> id, Name |-> name]
Item(typeName, rec) == [type |-> typeName, val |-> rec]

\* What a call returned and did: (found, err), a panic, the number of
\* statements it sent, the record behind structPtr after the call, and the
\* rows of every table as the connection sees them after the call
Ret(found, err, panic, sent, val, d) ==
    [found |-> found, err |-> err, panic |-> panic, sent |-> sent, val |-> val, d |-> d]

\* The limit taken one too high
InsertRefusedOffByOne(n) == n = 0 \/ n > LimitInsert + 1

\* if len(items) == 0 {...}; if len(items) > LimitInsert {...}
InsertRefused(n) == n = 0 \/ n > LimitInsert

\* mod := parseModel(structPtr, true) of every item
InsertMods(items) == [k \in 1..Len(items) |-> ModelOf(items[k].type)]

\* args = append(args, mod.getVals(rowModel, mod.Fields)...) for the items
\* lo .. hi: the values of the items one after the other, in the order of the
\* items (computed by halves to keep the evaluation shallow)
RECURSIVE InsertArgs(_, _, _, _)
InsertArgs(items, mods, lo, hi) ==
    IF lo > hi THEN <<>>
    ELSE IF lo = hi THEN getVals(items[lo].type, items[lo].val, mods[lo].Fields)
    ELSE InsertArgs(items, mods, lo, (lo + hi) \div 2)
         \o InsertArgs(items, mods, ((lo + hi) \div 2) + 1, hi)

\* a.con.Exec(insertSQL, args...)
InsertExec(items, mods, rows, d) ==
    Ret(FALSE, rows.err, FALSE, 1, items, [d EXCEPT ![mods[1].TableName] = rows.rows])

\* crudAdapter.Insert once the number of items was accepted
InsertLoop(items, mods, d) ==
    IF \E k \in 1..Len(mods) : mods[k].panic THEN Ret(FALSE, FALSE, TRUE, 0, items, d)
    ELSE IF \E i \in 2..Len(mods) : mods[i].TableName # mods[1].TableName
    THEN Ret(FALSE, TRUE, FALSE, 0, items, d)
    ELSE InsertExec(items, mods,
                    ExecInsert(d[mods[1].TableName], InsertSQL(mods[1], mods),
                               InsertArgs(items, mods, 1, Len(items))), d)

\* crudAdapter.Insert(items...)
Insert(items, d) ==
    IF InsertRefused(Len(items)) THEN Ret(FALSE, TRUE, FALSE, 0, items, d)
    ELSE InsertLoop(items, InsertMods(items), d)

\* a.con.Exec(updateSQL, args...) with args = append(getVals(fieldsNoPK), getPK)
UpdateExec(rec, mod, rows, d) ==
    Ret(FALSE, rows.err, FALSE, 1, rec, [d EXCEPT ![mod.TableName] = rows.rows])

UpdateStmt(typeName, rec, mod, fields, args, d) ==
    UpdateExec(rec, mod,
               ExecUpdate(d[mod.TableName], TableCols, fields, WherePK(mod, Len(args)), args), d)

\* The primary key bound first
UpdateModelPKFirst(typeName, rec, mod, fields, d) ==
    UpdateStmt(typeName, rec, mod, fields,
               <<getPK(typeName, mod, rec)>> \o getVals(typeName, rec, fields), d)

UpdateModel(typeName, rec, mod, fields, d) ==
    UpdateStmt(typeName, rec, mod, fields,
               getVals(typeName, rec, fields) \o <<getPK(typeName, mod, rec)>>, d)

\* crudAdapter.Update(structPtr)
Update(typeName, rec, d) ==
    UpdateModel(typeName, rec, ModelOf(typeName),
                GetFieldsNoPK(ModelOf(typeName), <<>>).fields, d)

DeleteExec(rec, mod, rows, d) ==
    Ret(FALSE, rows.err, FALSE, 1, rec, [d EXCEPT ![mod.TableName] = rows.rows])

DeleteModel(rec, mod, pkVal, d) ==
    IF pkVal = "" THEN Ret(FALSE, TRUE, FALSE, 0, rec, d)
    ELSE DeleteExec(rec, mod,
                    ExecDelete(d[mod.TableName], TableCols, WherePK(mod, 1), <<pkVal>>), d)

\* crudAdapter.Delete(structPtr)
Delete(typeName, rec, d) ==
    DeleteModel(rec, ModelOf(typeName), getPK(typeName, ModelOf(typeName), rec), d)

\* row.Scan(valAddrs...): the i-th column of the row goes to the field of the
\* record at fields[i].FieldPos
ScanInto(typeName, rec, fields, row) ==
    [g \in DOMAIN rec |->
        IF \E j \in 1..Len(fields) : StructOf(typeName)[fields[j].FieldPos + 1].GoName = g
        THEN row[fields[CHOOSE j \in 1..Len(fields) :
                           StructOf(typeName)[fields[j].FieldPos + 1].GoName = g].PGName]
        ELSE rec[g]]

\* pgx.ErrNoRows returned to the caller as any other error
GetScanNoRowsIsError(typeName, rec, fields, rows, d) ==
    IF rows.err \/ rows.rows = {} THEN {Ret(FALSE, TRUE, FALSE, 1, rec, d)}
    ELSE {Ret(TRUE, FALSE, FALSE, 1, ScanInto(typeName, rec, fields, row), d) :
              row \in rows.rows}

\* a.con.QueryRow(getSQL, args...) and row.Scan: every row the statement may
\* return first is an outcome
GetScan(typeName, rec, fields, rows, d) ==
    IF rows.err THEN {Ret(FALSE, TRUE, FALSE, 1, rec, d)}
    ELSE IF rows.rows = {} THEN {Ret(FALSE, FALSE, FALSE, 1, rec, d)}
    ELSE {Ret(TRUE, FALSE, FALSE, 1, ScanInto(typeName, rec, fields, row), d) :
              row \in rows.rows}

GetQuery(typeName, rec, mod, f, query, args, d) ==
    IF f.panic THEN {Ret(FALSE, FALSE, TRUE, 0, rec, d)}
    ELSE GetScan(typeName, rec, f.fields, ExecSelect(d[mod.TableName], query, args), d)

GetBuilt(typeName, rec, mod, b, d) ==
    IF b.err THEN {Ret(FALSE, TRUE, FALSE, 0, rec, d)}
    ELSE GetQuery(typeName, rec, mod, getFields(mod, b.stmt.Columns),
                  b.stmt.Query, b.stmt.Args, d)

GetByPK(typeName, rec, mod, d) ==
    GetQuery(typeName, rec, mod, getFields(mod, <<>>), WherePK(mod, 1),
             <<getPK(typeName, mod, rec)>>, d)

\* crudAdapter.Get(structPtr, opts...) when the options hold no join
Get(typeName, rec, opts, d) ==
    IF Len(opts) # 0
    THEN GetBuilt(typeName, rec, ModelOf(typeName), Build(opts, OpSelect, <<>>), d)
    ELSE GetByPK(typeName, rec, ModelOf(typeName), d)

(***************************************************************************)
(* The program: calls on the package's pool ("pool") and on the TxAdapter  *)
(* that Begin returned ("tx").  A transaction works on its own copy of the *)
(* rows; a statement that fails aborts it, after which every statement     *)
(* fails and Commit rolls back and returns an error.  While a transaction  *)
(* is open the program writes through it only.                             *)
(***************************************************************************)
MaxOps == 3

EmptyStore == [t \in TableNames |-> {}]
NoTxn      == [state |-> "none", rows |-> EmptyStore]
NoCall     == [op |-> "none", conn |-> "pool", type |-> "", items |-> <<>>,
               rec |-> Rec("", ""), opts |-> <<>>, found |-> FALSE, err |-> FALSE,
               panic |-> FALSE, sent |-> 0, val |-> Rec("", ""), log |-> <<>>]

\* The calls made so far, oldest first: operation, connection, the primary
\* key and the options passed, and the error returned
Logged(op, conn, id, opts, err) ==
    Append(res.log, [op |-> op, conn |-> conn, id |-> id, opts |-> opts, err |-> err])

TxLive == txn.state \in {"open", "failed"}

\* Every call works on the pool
ViewOfPool(conn) == store

\* The rows the connection works on
View(conn) == IF conn = "tx" THEN txn.rows ELSE store

\* The connection can take the call
CanCall(conn, writes) ==
    /\ nOps < MaxOps /\ ~res.panic
    /\ conn = "tx" => TxLive
    /\ (conn = "pool" /\ writes) => ~TxLive

\* The call as the connection answers it: in an aborted transaction every
\* statement sent fails
OnConn(conn, r, val) ==
    IF conn = "tx" /\ txn.state = "failed" /\ r.sent > 0
    THEN Ret(FALSE, TRUE, FALSE, r.sent, val, txn.rows)
    ELSE r

\* The state after the call
AfterCall(op, conn, typeName, items, rec, opts, r) ==
    /\ res' = [op |-> op, conn |-> conn, type |-> typeName, items |-> items,
               rec |-> rec, opts |-> opts, found |-> r.found, err |-> r.err,
               panic |-> r.panic, sent |-> r.sent, val |-> r.val,
               log |-> Logged(op, conn, IF op = "Insert" /\ Len(items) = 1
                                        THEN items[1].val.ID ELSE rec.ID, opts, r.err)]
    /\ nOps' = nOps + 1
    /\ IF conn = "tx"
       THEN /\ txn' = [state |-> IF r.err /\ r.sent > 0 THEN "failed" ELSE txn.state,
                       rows  |-> r.d]
            /\ store' = store
       ELSE store' = r.d /\ txn' = txn

Conns  == {"pool", "tx"}
Ids    == {"", "u1", "u2"}
OpsOpts == {<<>>, <<Columns(<<"name">>)>>, <<Equal("name", "b")>>}

\* pgc.Insert(&fakeInsert2{id, "a"}) or (*TxAdapter).Insert
DoInsert ==
    \E conn \in Conns, id \in Ids :
        /\ CanCall(conn, TRUE)
        /\ \E items \in {<<Item("fakeInsert2", Rec(id, "a"))>>} :
             \E r \in {OnConn(conn, Insert(items, View(conn)), items)} :
                AfterCall("Insert", conn, "fakeInsert2", items, Rec("", ""), <<>>, r)

\* pgc.Update(&fakeInsert2{id, "b"}) or (*TxAdapter).Update
DoUpdate ==
    \E conn \in Conns, id \in Ids :
        /\ CanCall(conn, TRUE)
        /\ \E r \in {OnConn(conn, Update("fakeInsert2", Rec(id, "b"), View(conn)),
                             Rec(id, "b"))} :
             AfterCall("Update", conn, "fakeInsert2", <<>>, Rec(id, "b"), <<>>, r)

\* pgc.Delete(&fakeInsert2{ID: id}) or (*TxAdapter).Delete
DoDelete ==
    \E conn \in Conns, id \in Ids :
        /\ CanCall(conn, TRUE)
        /\ \E r \in {OnConn(conn, Delete("fakeInsert2", Rec(id, ""), View(conn)),
                             Rec(id, ""))} :
             AfterCall("Delete", conn, "fakeInsert2", <<>>, Rec(id, ""), <<>>, r)

\* pgc.Get(&fakeInsert2{ID: id}, opts...) or (*TxAdapter).Get
DoGet ==
    \E conn \in Conns, id \in Ids, opts \in OpsOpts :
        /\ CanCall(conn, FALSE)
        /\ \E r0 \in Get("fakeInsert2", Rec(id, ""), opts, View(conn)) :
             \E r \in {OnConn(conn, r0, Rec(id, ""))} :
                AfterCall("Get", conn, "fakeInsert2", <<>>, Rec(id, ""), opts, r)

\* The users of the join tables, and the scan of the rows that the SELECT of
\* Get(&userJoin{}, Join(&subscriptionJoin{}, ...), Join(&socialJoin{}, ...),
\* Equal("id", id)) returns
JoinUsers == <<"u1", "u2">>

GetJoinScan(id, rel, social) ==
    [phase |-> "scan", parents |-> JoinUsers, rel |-> rel, social |-> social,
     rows |-> ResultRows(SelectSeq(JoinUsers, LAMBDA u : u = id), 1, rel, social),
     pos |-> 0, modPK |-> "", prevRow |-> NewPrevRow, dest |-> <<>>]

\* Get when stmt.Joins != nil: rawSelect into a new slice, then its length
GetJoined(rec, s, d) ==
    IF Len(s.dest) = 0 THEN Ret(FALSE, FALSE, FALSE, 1, rec, d)
    ELSE Ret(TRUE, FALSE, FALSE, 1, s.dest[1], d)

\* pgc.Get(&userJoin{}, joins, Equal("id", id)) or (*TxAdapter).Get
DoGetJoin ==
    \E conn \in Conns, id \in {"u1", "u3"}, social \in {{}, {"u1"}},
       rel \in SUBSET ({"u1"} \X {"s1", "s2"}) :
        /\ CanCall(conn, FALSE)
        /\ \E s \in {ScanAll(GetJoinScan(id, rel, social))} :
             \E r \in {OnConn(conn, GetJoined(NewRowModel(""), s, View(conn)),
                              NewRowModel(""))} :
                AfterCall("GetJoin", conn, "userJoin", s.rows, NewRowModel(""),
                          <<Equal("id", id)>>, r)

\* Adapter.Begin: a TxAdapter on a new transaction
Begin ==
    /\ nOps < MaxOps /\ ~res.panic /\ ~TxLive
    /\ txn' = [state |-> "open", rows |-> store]
    /\ res' = [NoCall EXCEPT !.op = "Begin", !.conn = "tx",
                             !.log = Logged("Begin", "tx", "", <<>>, FALSE)]
    /\ nOps' = nOps + 1
    /\ UNCHANGED store

\* TxAdapter.Commit: pgx commits, or rolls an aborted transaction back and
\* returns ErrTxCommitRollback
TxCommit ==
    /\ nOps < MaxOps /\ ~res.panic /\ TxLive
    /\ store' = IF txn.state = "open" THEN txn.rows ELSE store
    /\ txn' = [txn EXCEPT !.state = "closed"]
    /\ res' = [NoCall EXCEPT !.op = "Commit", !.conn = "tx", !.err = (txn.state = "failed"),
                             !.log = Logged("Commit", "tx", "", <<>>, txn.state = "failed")]
    /\ nOps' = nOps + 1

\* TxAdapter.Rollback
TxRollback ==
    /\ nOps < MaxOps /\ ~res.panic /\ TxLive
    /\ txn' = [txn EXCEPT !.state = "closed"]
    /\ res' = [NoCall EXCEPT !.op = "Rollback", !.conn = "tx",
                             !.log = Logged("Rollback", "tx", "", <<>>, FALSE)]
    /\ nOps' = nOps + 1
    /\ UNCHANGED store

\* One Insert call through the pool: the items of the call
MaxItems == 2

InsertTypes == {"fakeInsert2", "fakeInsert1", "insertMeth"}
InsertItems == {Item(t, Rec(id, "a")) : t \in InsertTypes, id \in {"u1", "u2", "u3"}}

\* n items of one record type with the primary keys "1" .. "n"
Bulk(n) == [k \in 1..n |-> Item("fakeInsert2", Rec(ToString(k), "a"))]

InsertInputs == SeqsUpTo(InsertItems, MaxItems) \cup {Bulk(LimitInsert), Bulk(LimitInsert + 1)}

\* The tables before the call
InsertStores ==
    {EmptyStore, [EmptyStore EXCEPT !["fake_insert2"] = {[id |-> "u1", name |-> "b"]}]}

InsertMany ==
    /\ nOps = 0
    /\ \E items \in InsertInputs :
         \E r \in {Insert(items, store)} :
            AfterCall("Insert", "pool", "", items, Rec("", ""), <<>>, r)

(***************************************************************************)
(* parseModel called in sequence for record types of any shape, with the   *)
(* cache as a map from the type to the model built for it.  A record type  *)
(* is known by the sequence of its fields.                                 *)
(***************************************************************************)
MaxFields    == 3
MaxDescribes == 2

\* The fields a record type is made of: ID string; UserID string `pgc:"pk"`;
\* Name string
DescribeFields ==
    {SField("ID", "id", "", "string"), SField("UserID", "user_id", "pk", "string"),
     SField("Name", "name", "", "string")}

\* The record types: their fields in the order of declaration, no field twice
DescribeTypes ==
    {st \in SeqsUpTo(DescribeFields, MaxFields) :
        \A i, j \in 1..Len(st) : st[i] = st[j] => i = j}

\* parseModel(mm, requirePK) on the cache: [panic, mod, modelMap]
ParseModel(modelMap, st, requirePK, mod) ==
    IF st \in DOMAIN modelMap
    THEN [panic |-> FALSE, mod |-> modelMap[st], modelMap |-> modelMap]
    ELSE IF mod.panic
    THEN [panic |-> TRUE, mod |-> mod, modelMap |-> modelMap]
    ELSE [panic |-> FALSE, mod |-> mod, modelMap |-> (st :> mod) @@ modelMap]

\* The state before any call: an empty cache, one caller
NoDescribe ==
    [pc |-> "idle", n |-> 0, st |-> <<>>, requirePK |-> FALSE, panic |-> FALSE,
     mod |-> NewModel("")]

\* One call of parseModel: directly (requirePK) or through parseDestSlice
Describe ==
    /\ threads[1].n < MaxDescribes
    /\ \E st \in DescribeTypes, requirePK \in BOOLEAN :
         \E r \in {ParseModel(cachedModelMap.modelMap, st, requirePK,
                               parseStruct("t", st, requirePK))} :
            /\ cachedModelMap' = [cachedModelMap EXCEPT !.modelMap = r.modelMap]
            /\ threads' = <<[pc |-> "done", n |-> threads[1].n + 1, st |-> st,
                             requirePK |-> requirePK, panic |-> r.panic, mod |-> r.mod]>>

(***************************************************************************)
(* SelectCustomData (and Count, which calls it with the destination type   *)
(* rowsCount) called from several goroutines.  The destination's model is  *)
(* the one object the cache holds for the type; mod.TableName = ... is an  *)
(* unsynchronized write to it.  A read or write of the string that         *)
(* overlaps another goroutine's write is a data race: it yields the old    *)
(* value, the new value, or a mix of the two.                              *)
(***************************************************************************)
\* type rowsCount struct { Count int `pgc_name:"COUNT(*) as count"` }
rowsCount == <<SField("Count", "COUNT(*) as count", "", "int")>>

\* The record types passed as the table owner
OwnerTypes == {"fakeInsert2", "fakeInsert1"}

\* Before the calls: goroutine t is about to call Count(&owner{})
CustomInputs ==
    [Threads -> {[pc |-> "origin", owner |-> o, origin |-> "", queried |-> ""] :
                    o \in OwnerTypes}]

CustomAt(t, pc) == threads[t].pc = pc

\* originModel := parseModel(model, true)
CustomOrigin(t) ==
    /\ CustomAt(t, "origin")
    /\ threads' = [threads EXCEPT ![t] =
                     [@ EXCEPT !.pc = "dest", !.origin = ModelOf(threads[t].owner).TableName]]
    /\ UNCHANGED cachedModelMap

\* mod, ... := parseDestSlice(destSlicePtr): the cached model of the type
CustomDest(t) ==
    /\ CustomAt(t, "dest")
    /\ \E r \in {ParseModel(cachedModelMap.modelMap, rowsCount, FALSE,
                              parseStruct("rows_count", rowsCount, FALSE))} :
         cachedModelMap' = [cachedModelMap EXCEPT !.modelMap = r.modelMap]
    /\ threads' = [threads EXCEPT ![t].pc = "write"]

\* mod.TableName = originModel.TableName, from its start ...
CustomWriteBegin(t) ==
    /\ CustomAt(t, "write")
    /\ cachedModelMap' = [cachedModelMap EXCEPT !.writers = @ \cup {t}]
    /\ threads' = [threads EXCEPT ![t].pc = "writing"]

\* ... to its end
CustomWriteEnd(t) ==
    /\ CustomAt(t, "writing")
    /\ \E name \in {threads[t].origin}
                     \cup (IF cachedModelMap.writers # {t} THEN {"torn"} ELSE {}) :
         cachedModelMap' =
             [cachedModelMap EXCEPT !.writers = @ \ {t},
                                    !.modelMap[rowsCount].TableName = name]
    /\ threads' = [threads EXCEPT ![t].pc = "render"]

\* renderTemplate(Map{"mod": mod, ...}, selectBaseTemplate) and rawSelect:
\* the table named in FROM
CustomRender(t) ==
    /\ CustomAt(t, "render")
    /\ \E name \in {cachedModelMap.modelMap[rowsCount].TableName}
                     \cup (IF cachedModelMap.writers \ {t} # {}
                           THEN {"torn"} \cup {threads[w].origin :
                                                  w \in cachedModelMap.writers \ {t}}
                           ELSE {}) :
         threads' = [threads EXCEPT ![t] = [@ EXCEPT !.pc = "done", !.queried = name]]
    /\ UNCHANGED cachedModelMap

(***************************************************************************)
(* rawSelect as SelectCustomData calls it: no joins, requirePK false, the  *)
(* destination a record type of its own.  A row is the tuple of the values *)
(* scanned into the destination's fields.                                  *)
(***************************************************************************)
MaxRows == 3

\* reflect.Value.String(): the string of a string, "<T Value>" of any other kind
ReflectString(kind, v) == IF kind = "string" THEN v ELSE "<" \o kind \o " Value>"

\* model.getPK(rowModel) on a destination: Field(mod.PKPos).String()
getPKString(st, mod, rowModel) ==
    ReflectString(st[mod.PKPos + 1].kind, rowModel[mod.PKPos + 1])

\* One iteration of for rows.Next() {...} with len(joinMods) = 0
CustomScanOne(s) ==
    LET mod      == parseStruct("", s.st, FALSE)
        rowModel == s.rows[s.pos + 1]
        modPK    == IF mod.PKPos # -1 THEN getPKString(s.st, mod, rowModel) ELSE s.modPK
        same     == rowIsTheSame(modPK, s.prevRow.modPK)
        prevRow1 == IF ~same THEN [model |-> rowModel, modPK |-> modPK] ELSE s.prevRow
        dest1    == IF ~same THEN Append(s.dest, rowModel)
                    ELSE [s.dest EXCEPT ![Len(s.dest)] = prevRow1.model]
    IN  [s EXCEPT !.pos = @ + 1, !.modPK = modPK, !.prevRow = prevRow1, !.dest = dest1]

CustomScanRow ==
    /\ sel.phase = "scan" /\ sel.pos < Len(sel.rows)
    /\ sel' = CustomScanOne(sel)

\* rows.Next() reports no more rows: rawSelect and SelectCustomData return
CustomCloseRows ==
    /\ sel.phase = "scan" /\ sel.pos = Len(sel.rows)
    /\ sel' = [sel EXCEPT !.phase = "done"]

\* The rows a statement can answer with for a destination type
CustomRowsOf(st) ==
    IF st = customData THEN {<<u, p>> : u \in {"", "u1", "u2"}, p \in {10, 20}}
    ELSE {<<c>> : c \in {0, 1, 2}}

CustomScanInputs ==
    {[phase |-> "scan", st |-> st, rows |-> rows, pos |-> 0, modPK |-> "",
      prevRow |-> [model |-> <<>>, modPK |-> ""], dest |-> <<>>] :
        st \in {customData, rowsCount}, rows \in {<<>>}} \cup
    UNION {{[phase |-> "scan", st |-> st, rows |-> rows, pos |-> 0, modPK |-> "",
             prevRow |-> [model |-> <<>>, modPK |-> ""], dest |-> <<>>] :
               rows \in UNION {[1..n -> CustomRowsOf(st)] : n \in 1..MaxRows}} :
           st \in {customData, rowsCount}}

(***************************************************************************)
(* UpdateSchema called by two callers at once, each on connections of its  *)
(* own.  db is the committed database; a transaction holds what it wrote   *)
(* and sees the committed database with its own writes on top (READ        *)
(* COMMITTED).  A statement that touches a key another open transaction    *)
(* wrote waits until that transaction ends.  db.ups and db.ins count, per  *)
(* version, the committed runs of the up SQL and the committed inserts of  *)
(* the bookkeeping row.                                                    *)
(***************************************************************************)
Callers == {1, 2}

\* The migrations of TestMigrationHandler and one whose up SQL never fails on
\* a table that exists
RaceMigrations == RegisterMigration(TestMigrations, V3, <<DeleteUser({1})>>, <<>>)

NoTx == [open |-> FALSE, version |-> "", at |-> 0, stmts |-> <<>>, mig |-> {},
         ups |-> {}, failed |-> FALSE]

\* The database as the transaction sees it, and as its commit leaves it
Written(tx, d) ==
    [ExecSQL(tx.stmts, d).db EXCEPT
        !.mig.rows = @ \cup tx.mig,
        !.ups = [v \in DOMAIN @ |-> @[v] + IF v \in tx.ups THEN 1 ELSE 0],
        !.ins = [v \in DOMAIN @ |-> @[v] + IF v \in tx.mig THEN 1 ELSE 0]]

\* The statement touches a key one of the statements wrote
Conflicts(st, stmts) ==
    \E i \in 1..Len(stmts) :
        \/ st.op = "create" /\ stmts[i].op = "create"
        \/ /\ st.op \in {"insert", "delete"} /\ stmts[i].op \in {"insert", "delete"}
           /\ ~(st.op = "delete" /\ stmts[i].op = "insert")
           /\ st.rows \cap stmts[i].rows # {}

Waits(t, st) ==
    \E u \in Callers \ {t} : threads[u].tx.open /\ Conflicts(st, threads[u].tx.stmts)

WaitsVersion(t, version) ==
    \E u \in Callers \ {t} : threads[u].tx.open /\ version \in threads[u].tx.mig

\* The loop of UpdateSchema up to the version it stops at
RECURSIVE SkipInstalled(_, _, _, _)
SkipInstalled(h, versions, existingMap, execDefault) ==
    IF Len(versions) = 0 THEN versions
    ELSE IF Head(versions) \in existingMap
    THEN SkipInstalled(h, Tail(versions), existingMap, execDefault)
    ELSE IF h[Head(versions)].upSQL = <<>> THEN versions
    ELSE IF h[Head(versions)].isDefault /\ ~execDefault
    THEN SkipInstalled(h, Tail(versions), existingMap, execDefault)
    ELSE versions

NewCaller(execDefault) ==
    [pc |-> "select", execDefault |-> execDefault, existingMap |-> {}, todo |-> <<>>,
     tx |-> NoTx, err |-> FALSE, panic |-> FALSE, installed |-> {}, lost |-> {}]

\* MustSelect(&existing, ...) and existingMap
UpdSelect(t) ==
    /\ threads[t].pc = "select"
    /\ threads' = [threads EXCEPT ![t] =
          IF ~db.mig.exists THEN [@ EXCEPT !.pc = "done", !.panic = TRUE]
          ELSE [@ EXCEPT !.pc = "next", !.existingMap = Range(SelectVersions(db)),
                         !.todo = MigrationVersions(mh)]]
    /\ UNCHANGED <<db, mh>>

\* The loop up to Begin() in execInTx, or to the return
UpdNext(t) ==
    /\ threads[t].pc = "next"
    /\ \E todo \in {SkipInstalled(mh, threads[t].todo, threads[t].existingMap,
                                   threads[t].execDefault)} :
         threads' = [threads EXCEPT ![t] =
            IF Len(todo) = 0 THEN [@ EXCEPT !.pc = "done", !.todo = todo]
            ELSE IF mh[Head(todo)].upSQL = <<>>
            THEN [@ EXCEPT !.pc = "done", !.todo = todo, !.err = TRUE]
            ELSE [@ EXCEPT !.pc = "exec", !.todo = todo,
                           !.tx = [NoTx EXCEPT !.open = TRUE, !.version = Head(todo)]]]
    /\ UNCHANGED <<db, mh>>

\* a.Exec(m.upSQL): the next statement of the up SQL
UpdExec(t) ==
    /\ threads[t].pc = "exec"
    /\ \E tx \in {threads[t].tx} :
       \E st \in {mh[tx.version].upSQL[tx.at + 1]} :
         /\ ~Waits(t, st)
         /\ \E last \in {tx.at + 1 = Len(mh[tx.version].upSQL)} :
              threads' = [threads EXCEPT ![t] =
                 IF ExecStmt(st, Written(tx, db)).err
                 THEN [@ EXCEPT !.pc = "end", !.tx.failed = TRUE]
                 ELSE [@ EXCEPT !.pc = IF last THEN "insert" ELSE "exec",
                                !.tx.stmts = Append(@, st), !.tx.at = @ + 1,
                                !.tx.ups = IF last THEN {tx.version} ELSE {}]]
    /\ UNCHANGED <<db, mh>>

\* a.Insert(&SchemaMigration{Version: version, ...})
UpdInsert(t) ==
    /\ threads[t].pc = "insert"
    /\ \E tx \in {threads[t].tx} :
         /\ ~WaitsVersion(t, tx.version)
         /\ threads' = [threads EXCEPT ![t] =
               IF InsertVersion(Written(tx, db), tx.version).err
               THEN [@ EXCEPT !.pc = "end", !.tx.failed = TRUE]
               ELSE [@ EXCEPT !.pc = "end", !.tx.mig = {tx.version}]]
    /\ UNCHANGED <<db, mh>>

\* tx.Rollback() and the return of the error, or tx.Commit() and the next version
UpdEnd(t) ==
    /\ threads[t].pc = "end"
    /\ \E tx \in {threads[t].tx} :
         /\ db' = TxEnd(tx.failed, db, Written(tx, db))
         /\ threads' = [threads EXCEPT ![t] =
               IF tx.failed
               THEN [@ EXCEPT !.pc = "done", !.err = TRUE, !.tx = NoTx,
                              !.lost = {tx.version}]
               ELSE [@ EXCEPT !.pc = "next", !.tx = NoTx, !.todo = Tail(@),
                              !.installed = @ \cup {tx.version}]]
    /\ UNCHANGED mh

\* The databases the callers start on: no table, InitSchema done, and the
\* versions V1 and V2 installed
Counted(d) == [ups |-> [v \in DOMAIN RaceMigrations |-> 0],
               ins |-> [v \in DOMAIN RaceMigrations |-> 0]] @@ d

RaceDBs ==
    LET d0 == RunInitSchema(RaceMigrations, FALSE, FreshDB).db
        d1 == RunExecuteMigration(RaceMigrations, V1, d0).db
        d2 == RunExecuteMigration(RaceMigrations, V2, d1).db
    IN  {Counted(FreshDB), Counted(d0), Counted(d2)}

(***************************************************************************)
(* Specifications                                                          *)
(***************************************************************************)
QbIdle     == built = BuildIdle
CrudIdle   == table = {} /\ crudCall = [phase |-> "idle"]
FieldsIdle == fieldsCall = [phase |-> "idle"]
SelIdle    == sel = [phase |-> "idle"]
CacheIdle  == cachedModelMap = NewModelSyncMap /\ threads = <<>>
MigIdle    == mh = <<>> /\ db = FreshDB /\ migCall = NoMigCall /\ nCalls = 0
OpsIdle    == store = EmptyStore /\ txn = NoTxn /\ nOps = 0 /\ res = NoCall

InitBuild == built \in BuildInputs /\ CrudIdle /\ FieldsIdle /\ SelIdle /\ CacheIdle /\ MigIdle /\ OpsIdle

NextBuild == DoBuild /\ UNCHANGED <<crudVars, fieldsVars, selVars, cacheVars, migVars, opsVars>>

SpecBuild == InitBuild /\ [][NextBuild]_vars

InitNested == built \in NestedInputs /\ CrudIdle /\ FieldsIdle /\ SelIdle /\ CacheIdle /\ MigIdle /\ OpsIdle

SpecNested == InitNested /\ [][NextBuild]_vars

InitCrud ==
    /\ QbIdle /\ FieldsIdle /\ SelIdle /\ CacheIdle /\ MigIdle /\ OpsIdle
    /\ table \in CrudTables
    /\ crudCall \in CrudInputs(table)

NextCrud == (DeleteRows \/ UpdateRows) /\ UNCHANGED <<qbVars, fieldsVars, selVars, cacheVars, migVars, opsVars>>

SpecCrud == InitCrud /\ [][NextCrud]_vars

InitUnknownKeys ==
    /\ QbIdle /\ FieldsIdle /\ SelIdle /\ CacheIdle /\ MigIdle /\ OpsIdle
    /\ table \in CrudTables
    /\ crudCall \in UnknownKeyInputs(table)

InitMisuse ==
    /\ QbIdle /\ FieldsIdle /\ SelIdle /\ CacheIdle /\ MigIdle /\ OpsIdle
    /\ table \in CrudTables
    /\ crudCall \in MisuseInputs(table)

SpecMisuse == InitMisuse /\ [][NextCrud]_vars

NextUnknownKeys == UpdateRows /\ UNCHANGED <<qbVars, fieldsVars, selVars, cacheVars, migVars, opsVars>>

SpecUnknownKeys == InitUnknownKeys /\ [][NextUnknownKeys]_vars

InitFields == QbIdle /\ CrudIdle /\ SelIdle /\ CacheIdle /\ MigIdle /\ OpsIdle /\ fieldsCall \in FieldsInputs

NextFields == SelectFields /\ UNCHANGED <<qbVars, crudVars, selVars, cacheVars, migVars, opsVars>>

InitInsert ==
    /\ QbIdle /\ CrudIdle /\ FieldsIdle /\ SelIdle /\ CacheIdle /\ MigIdle
    /\ store \in InsertStores /\ txn = NoTxn /\ nOps = 0 /\ res = NoCall

NextInsert ==
    InsertMany /\ UNCHANGED <<qbVars, crudVars, fieldsVars, selVars, cacheVars, migVars>>

SpecInsert == InitInsert /\ [][NextInsert]_vars

InitOps == QbIdle /\ CrudIdle /\ FieldsIdle /\ SelIdle /\ CacheIdle /\ MigIdle /\ OpsIdle

NextOps ==
    /\ \/ DoInsert \/ DoUpdate \/ DoDelete \/ DoGet \/ DoGetJoin
       \/ Begin \/ TxCommit \/ TxRollback
    /\ UNCHANGED <<qbVars, crudVars, fieldsVars, selVars, cacheVars, migVars>>

SpecOps == InitOps /\ [][NextOps]_vars

SpecFields == InitFields /\ [][NextFields]_vars

InitJoin == QbIdle /\ CrudIdle /\ FieldsIdle /\ CacheIdle /\ MigIdle /\ OpsIdle /\ sel \in SelInputs

NextJoin == (ScanRow \/ CloseRows) /\ UNCHANGED <<qbVars, crudVars, fieldsVars, cacheVars, migVars, opsVars>>

SpecJoin == InitJoin /\ [][NextJoin]_vars

InitCache ==
    /\ QbIdle /\ CrudIdle /\ FieldsIdle /\ SelIdle /\ MigIdle /\ OpsIdle
    /\ cachedModelMap = NewModelSyncMap
    /\ threads \in ThreadInputs

NextCache ==
    /\ \E t \in Threads :
          \/ CacheGet(t) \/ BuildModel(t) \/ SetLock(t)
          \/ SetWriteBegin(t) \/ SetWriteEnd(t) \/ SetUnlock(t)
    /\ UNCHANGED <<qbVars, crudVars, fieldsVars, selVars, migVars, opsVars>>

SpecCache == InitCache /\ [][NextCache]_vars

InitMig ==
    /\ QbIdle /\ CrudIdle /\ FieldsIdle /\ SelIdle /\ CacheIdle /\ OpsIdle
    /\ mh \in {TestMigrations, MoreMigrations, EmptyUpMigrations}
    /\ db \in {FreshDB, RunInitSchema(mh, FALSE, FreshDB).db}
    /\ migCall = NoMigCall
    /\ nCalls = 0

NextMig ==
    /\ InitSchema \/ UpdateSchema \/ ExecuteMigration \/ Rollback \/ RollbackLatest
       \/ reset
    /\ UNCHANGED <<qbVars, crudVars, fieldsVars, selVars, cacheVars, opsVars>>

InitDescribe ==
    /\ QbIdle /\ CrudIdle /\ FieldsIdle /\ SelIdle /\ MigIdle /\ OpsIdle
    /\ cachedModelMap = [modelMap |-> <<>>]
    /\ threads = <<NoDescribe>>

NextDescribe ==
    Describe /\ UNCHANGED <<qbVars, crudVars, fieldsVars, selVars, migVars, opsVars>>

SpecDescribe == InitDescribe /\ [][NextDescribe]_vars

InitCustom ==
    /\ QbIdle /\ CrudIdle /\ FieldsIdle /\ SelIdle /\ MigIdle /\ OpsIdle
    /\ cachedModelMap = [modelMap |-> <<>>, writers |-> {}]
    /\ threads \in CustomInputs

NextCustom ==
    /\ \E t \in Threads :
          \/ CustomOrigin(t) \/ CustomDest(t) \/ CustomWriteBegin(t)
          \/ CustomWriteEnd(t) \/ CustomRender(t)
    /\ UNCHANGED <<qbVars, crudVars, fieldsVars, selVars, migVars, opsVars>>

SpecCustom == InitCustom /\ [][NextCustom]_vars

InitCustomScan ==
    /\ QbIdle /\ CrudIdle /\ FieldsIdle /\ CacheIdle /\ MigIdle /\ OpsIdle
    /\ sel \in CustomScanInputs

NextCustomScan ==
    /\ CustomScanRow \/ CustomCloseRows
    /\ UNCHANGED <<qbVars, crudVars, fieldsVars, cacheVars, migVars, opsVars>>

SpecCustomScan == InitCustomScan /\ [][NextCustomScan]_vars

InitRace ==
    /\ QbIdle /\ CrudIdle /\ FieldsIdle /\ SelIdle /\ OpsIdle
    /\ cachedModelMap = NewModelSyncMap
    /\ mh = RaceMigrations /\ migCall = NoMigCall /\ nCalls = 0
    /\ db \in RaceDBs
    /\ threads \in {<<NewCaller(e1), NewCaller(e2)>> : e1, e2 \in BOOLEAN}

NextRace ==
    /\ \E t \in Callers :
          UpdSelect(t) \/ UpdNext(t) \/ UpdExec(t) \/ UpdInsert(t) \/ UpdEnd(t)
    /\ UNCHANGED <<qbVars, crudVars, fieldsVars, selVars, opsVars,
                   cachedModelMap, migCall, nCalls>>

SpecRace == InitRace /\ [][NextRace]_vars

SpecMig == InitMig /\ [][NextMig]_vars

(***************************************************************************)
(* Claims about Build                                                      *)
(***************************************************************************)
\* The options of a list that are Limit options, in order
LimitsOf(opts) == SelectSeq(opts, LAMBDA o : o.k = "limit")
HasAllOpt(opts) == \E i \in 1..Len(opts) : opts[i].k = "all"

\* The number after LIMIT in a built query, or -1 when it has no LIMIT clause
LimitClause(query) ==
    IF \E i \in 1..Len(query) : query[i] = Kw("LIMIT")
    THEN query[(CHOOSE i \in 1..Len(query) : query[i] = Kw("LIMIT")) + 1].n
    ELSE -1

BuiltSelect == built.called /\ built.op = OpSelect /\ ~built.err

\* C9: a built SELECT carries LIMIT 1000 exactly when its options hold neither
\* All() nor a Limit; with an explicit Limit(n), n >= 0, the last one decides and
\* the query carries LIMIT n; with All() and no Limit it carries no LIMIT.
C9_LimitAsClaimed ==
    BuiltSelect =>
        LET ls == LimitsOf(built.opts)
            lc == LimitClause(built.stmt.Query)
        IN  /\ (Len(ls) = 0 /\ ~HasAllOpt(built.opts)) => lc = DefaultSelectLimit
            /\ Len(ls) # 0 => lc = ls[Len(ls)].n
            /\ (Len(ls) = 0 /\ HasAllOpt(built.opts)) => lc = -1

\* A value written into the text in place of a placeholder
Val(v) == [t |-> "val", s |-> v, n |-> 0]

\* A condition as the caller wrote it, every value in its place
RECURSIVE Lit(_)
Lit(opt) ==
    CASE opt.k = "where" -> <<Id(opt.field), Kw(opt.cmp), Val(opt.value)>>
      [] opt.k = "in" ->
            <<Id(opt.field), Kw("IN"), Kw("(")>>
                \o JoinFrags([i \in 1..Len(opt.values) |-> <<Val(opt.values[i])>>], ",")
                \o <<Kw(")")>>
      [] opt.k = "raw" ->
            [i \in 1..Len(opt.query) |->
                IF opt.query[i] = Kw("?") THEN Val(opt.args[ArgLen(opt.query, i)])
                ELSE opt.query[i]]
      [] opt.k \in {"or", "and"} ->
            IF Len(opt.opts) = 0 THEN <<>>
            ELSE <<Kw("(")>>
                 \o JoinFrags([i \in 1..Len(opt.opts) |-> Lit(opt.opts[i])],
                              IF opt.k = "or" THEN "OR" ELSE "AND")
                 \o <<Kw(")")>>

\* The WHERE clause the conditions of a list state
LitWhere(opts) ==
    LET frags == SelectSeq([i \in 1..Len(opts) |-> Lit(opts[i])], LAMBDA f : f # <<>>)
    IN  IF Len(frags) = 0 THEN <<>> ELSE <<Kw("WHERE")>> \o JoinFrags(frags, "AND")

\* A built text with every placeholder $N replaced by Args[N-1]
Bound(query, args) ==
    [i \in 1..Len(query) |->
        IF query[i].t # "ph" THEN query[i]
        ELSE IF query[i].n \in 1..Len(args) THEN Val(args[query[i].n])
        ELSE Kw("unbound")]

\* The numbers of the placeholders of a text, in the order of the text
PhNumbers(query) ==
    LET phs == SelectSeq(query, LAMBDA x : x.t = "ph") IN [i \in 1..Len(phs) |-> phs[i].n]

\* The text of a built query without the LIMIT clause of a SELECT
WhereText(query) ==
    IF Len(query) >= 2 /\ query[Len(query) - 1] = Kw("LIMIT")
    THEN SubSeq(query, 1, Len(query) - 2) ELSE query

NestedExample == OR(<<E1, AND(<<E2, I2>>)>>)

\* C20: for any nesting of comparisons, IN, Raw, OR and AND, the placeholders
\* of the built text are $1..$n in the order of the text, n the number of Args,
\* and each $N stands where the option wrote the value Args[N-1]; the nested
\* example builds WHERE ("name" = $1 OR ("descr" = $2 AND "id" IN ($3,$4)))
\* with Args [blog4, descr3, id1, id2].
C20_PlaceholdersDenoteArgs ==
    (built.called /\ ~built.err /\ built.opts # <<>>) =>
        /\ PhNumbers(built.stmt.Query) = [i \in 1..Len(built.stmt.Args) |-> i]
        /\ Bound(WhereText(built.stmt.Query), built.stmt.Args) = LitWhere(built.opts)
        /\ built.opts = <<NestedExample>> =>
              /\ WhereText(built.stmt.Query) =
                    <<Kw("WHERE"), Kw("("), Id("name"), Kw("="), Ph(1), Kw("OR"), Kw("("),
                      Id("descr"), Kw("="), Ph(2), Kw("AND"), Id("id"), Kw("IN"), Kw("("),
                      Ph(3), Kw(","), Ph(4), Kw(")"), Kw(")"), Kw(")")>>
              /\ built.stmt.Args = <<"blog4", "descr3", "id1", "id2">>

\* The nested example followed by a raw condition of two arguments was built
C20_Witness ==
    /\ built.called /\ ~built.err
    /\ Len(built.opts) = 2 /\ built.opts[1] = NestedExample /\ built.opts[2].k = "raw"
    /\ Len(built.stmt.Args) = 6

\* The numbers of the placeholders that occur in a text
PhSet(query) == {query[i].n : i \in {j \in 1..Len(query) : query[j].t = "ph"}}

\* C28: after a successful Build of a SELECT without pre-existing arguments,
\* the placeholders that occur in the query text are exactly $1..$len(Args),
\* for every option list: no argument is bound without being referenced.
C28_ArgsAllReferenced ==
    (built.called /\ ~built.err /\ built.op = OpSelect)
        => PhSet(built.stmt.Query) = 1..Len(built.stmt.Args)

(***************************************************************************)
(* Claims about UpdateRows and DeleteRows                                  *)
(***************************************************************************)
\* Whether an option, as the caller wrote it, states a predicate
RECURSIVE StatesPredicate(_)
StatesPredicate(opt) ==
    \/ opt.k \in {"where", "in"}
    \/ opt.k \in {"or", "and"} /\ \E i \in 1..Len(opt.opts) : StatesPredicate(opt.opts[i])

CrudDone == crudCall.phase = "done"

\* The rows of the table as the map would leave them
Mapped(rows, m) ==
    {[c \in DOMAIN r |-> IF c \in DOMAIN m THEN m[c] ELSE r[c]] : r \in rows}

\* C1: UpdateRows and DeleteRows send a statement only if the built query has a
\* WHERE clause or All() was passed; with no option, or with options that state no
\* predicate, they return an error and leave the table as it was; with All()
\* alone they affect every row.
C1_NoWhereNoStatement ==
    CrudDone =>
        /\ crudCall.sent > 0 =>
              ContainsKw(crudCall.query, "WHERE") \/ HasAllOpt(crudCall.opts)
        /\ (\A i \in 1..Len(crudCall.opts) :
                ~StatesPredicate(crudCall.opts[i]) /\ crudCall.opts[i].k # "all") =>
              /\ crudCall.err /\ crudCall.sent = 0 /\ table = crudCall.before
        /\ (crudCall.opts = <<All>> /\ (crudCall.op = "UpdateRows" => DOMAIN crudCall.dataMap # {})) =>
              /\ ~crudCall.err
              /\ crudCall.affected = Cardinality(crudCall.before)
              /\ crudCall.op = "DeleteRows" => table = {}
              /\ crudCall.op = "UpdateRows" => table = Mapped(crudCall.before, crudCall.dataMap)

\* An All()-only call on a table of two rows has run and changed both
C1_Witness ==
    /\ CrudDone /\ crudCall.opts = <<All>> /\ crudCall.affected = 2
    /\ table # crudCall.before

\* The options build a statement UpdateRows sends
OptsAccepted(opts) ==
    \E b \in {Build(opts, OpUpdate, <<>>)} : ~b.err /\ ~RefusesAllRows(b.stmt)

\* The part of a column map whose keys are columns
KnownPart(m) == [c \in DOMAIN m \cap CrudCols |-> m[c]]

\* C14: UpdateRows drops the keys of the column map that are no columns of the
\* type model: the call does not fail because of them, and the known columns of
\* the map are updated with their values (with All(), in every row).
C14_UnknownKeysDropped ==
    (/\ CrudDone /\ crudCall.op = "UpdateRows"
     /\ DOMAIN KnownPart(crudCall.dataMap) # {}
     /\ OptsAccepted(crudCall.opts))
        => /\ ~crudCall.panic /\ ~crudCall.err
           /\ \A r \in table \ crudCall.before :
                 \A c \in DOMAIN KnownPart(crudCall.dataMap) : r[c] = crudCall.dataMap[c]
           /\ crudCall.opts = <<All>> =>
                 table = Mapped(crudCall.before, KnownPart(crudCall.dataMap))

(***************************************************************************)
(* Claims about Columns(...)                                               *)
(***************************************************************************)
\* The column names of a record type: those of its fields that are columns
ColumnsOf(typeName) ==
    LET mod == parseStruct(typeName, StructOf(typeName), FALSE)
    IN  {mod.Fields[j].PGName : j \in 1..Len(mod.Fields)}

\* C10: a Select or Get whose Columns(...) list holds a name that is not a
\* column of the record's type model fails, whatever the length of the list and
\* whatever its other names are.
C10_UnknownColumnFatal ==
    (/\ fieldsCall.phase = "done"
     /\ \E c \in 1..Len(fieldsCall.columns) :
            fieldsCall.columns[c] \notin ColumnsOf(fieldsCall.type))
        => fieldsCall.panic \/ fieldsCall.err

\* The columns a projection is to hold: the primary key and the named columns,
\* in the order the record type declares them
Projected(typeName, columns) ==
    LET mod == parseStruct(typeName, StructOf(typeName), FALSE)
    IN  SelectSeq([j \in 1..Len(mod.Fields) |-> mod.Fields[j].PGName],
                  LAMBDA c : c = mod.PKName \/ \E k \in 1..Len(columns) : columns[k] = c)

\* C11: with a non-empty Columns(...) list of columns of the record type, the
\* projected fields are exactly the primary-key column plus the named columns,
\* in declaration order, for every record type, also where a skipped field, a
\* join slot or the PGC sentinel is declared before the primary key.
C11_ProjectionIsPKPlusNamed ==
    (/\ fieldsCall.phase = "done"
     /\ Len(fieldsCall.columns) > 0
     /\ \A c \in 1..Len(fieldsCall.columns) :
            fieldsCall.columns[c] \in ColumnsOf(fieldsCall.type)
     /\ ~(fieldsCall.op = "Get" /\ fieldsCall.type = "customData"))
        => /\ ~fieldsCall.panic /\ ~fieldsCall.err
           /\ fieldsCall.fields = Projected(fieldsCall.type, fieldsCall.columns)

(***************************************************************************)
(* Claims about the join materializer                                      *)
(***************************************************************************)
SelDone == sel.phase = "done"

\* Every child record is joined to at most one parent
IsOneToMany(rel) == \A x, y \in rel : x[2] = y[2] => x[1] = y[1]

NoEmptyParentPK(parents) == \A i \in 1..Len(parents) : parents[i] # ""

\* What the tables say the destination is: one parent per parent record, in the
\* order of the rows, each with the children joined to it
Expected(parents, rel, social) ==
    [i \in 1..Len(parents) |->
        [ID |-> parents[i], Subscriptions |-> ChildrenOf(parents[i], rel),
         Social |-> IF parents[i] \in social THEN parents[i] ELSE ""]]

SlotLens(dest) == [i \in 1..Len(dest) |-> Len(dest[i].Subscriptions)]

C8_DedupPerParent ==
    (SelDone /\ NoEmptyParentPK(sel.parents)) =>
        /\ Len(sel.dest) = Len(sel.parents)
        /\ \A i \in 1..Len(sel.dest) :
              LET slot == sel.dest[i].Subscriptions
              IN  /\ \A j, k \in 1..Len(slot) : slot[j] = slot[k] => j = k
                  /\ \A c \in Children :
                        <<sel.parents[i], c>> \in sel.rel => c \in Range(slot)

(***************************************************************************)
(* Claims about the cache of type models                                   *)
(***************************************************************************)
\* C6: the goroutines that call parseModel concurrently for one type all obtain
\* the same model object, and each cache key is written at most once (the cache
\* being read and written under its mutex, a miss creating and storing the model
\* under mutual exclusion).
C6_SameModelObject ==
    /\ \A t1, t2 \in Threads :
          (/\ threads[t1].pc = "done" /\ threads[t2].pc = "done"
           /\ threads[t1].typeName = threads[t2].typeName)
              => threads[t1].ret = threads[t2].ret
    /\ \A n \in TypeNames : cachedModelMap.sets[n] <= 1

(***************************************************************************)
(* Claims about the migrations                                             *)
(***************************************************************************)
Returned(op) == migCall.op = op /\ ~migCall.panic

\* The versions whose SQL the last call sent to the database, in order
Executed ==
    LET ex == SelectSeq(migCall.trace, LAMBDA e : e.k = "exec")
    IN  [i \in 1..Len(ex) |-> ex[i].version]

\* The versions whose bookkeeping row the last call added
NewRows == db.mig.rows \ migCall.before.mig.rows

\* The up SQL of the versions of a list, one after the other, none failing
RECURSIVE ApplyUps(_, _)
ApplyUps(versions, d) ==
    IF Len(versions) = 0 THEN [err |-> FALSE, db |-> d]
    ELSE LET r == ExecSQL(mh[Head(versions)].upSQL, d)
         IN  IF r.err THEN r ELSE ApplyUps(Tail(versions), r.db)

\* The statements of the last call stand between a begin and a commit or
\* rollback of their version, and went over the transaction's connection
InOneTx(trace) ==
    /\ Len(trace) >= 2
    /\ trace[1].k = "begin"
    /\ trace[Len(trace)].k \in {"commit", "rollback"}
    /\ \A i \in 1..Len(trace) :
          /\ trace[i].conn = "tx"
          /\ trace[i].version = trace[1].version
          /\ (1 < i /\ i < Len(trace)) => trace[i].k \notin {"begin", "commit", "rollback"}

Pending ==
    {v \in DOMAIN mh : /\ v \notin migCall.before.mig.rows
                       /\ (v = DefaultVersion => migCall.execDefault)}

\* The version whose transaction the last call rolled back, if any
RolledBack == {e.version : e \in {x \in Range(migCall.trace) : x.k = "rollback"}}

\* C3: whenever UpdateSchema returns, the effects of a version's up SQL are
\* committed if and only if its bookkeeping row is; when version k fails, its
\* transaction is rolled back and an error returned, the pending versions before
\* k stay applied and those after k are not executed.
C3_VersionAtomic ==
    Returned("UpdateSchema") =>
        LET applied == ApplyUps(SortStrings(NewRows), migCall.before)
        IN  /\ migCall.before.mig.rows \subseteq db.mig.rows
            /\ ~applied.err /\ db.user = applied.db.user
            /\ db.log = migCall.before.log
            /\ ~migCall.err => (NewRows = Pending /\ RolledBack = {})
            /\ RolledBack # {} => migCall.err
            /\ \A k \in RolledBack :
                  /\ k \in Pending
                  /\ NewRows = {v \in Pending : LexLess(Chars(v), Chars(k))}
                  /\ \A i \in 1..Len(Executed) :
                        ~LexLess(Chars(k), Chars(Executed[i]))

\* V3 failed at its second statement after V2 was applied in the same call
C3_Witness ==
    /\ Returned("UpdateSchema") /\ migCall.err
    /\ RolledBack = {V3} /\ NewRows = {V2}
    /\ 3 \in migCall.before.user.rows
    /\ db.user.rows = {1, 2, 3}

\* SELECT ... FROM "user": the SQLSTATE of the answer
SelectUserState(d) == IF d.user.exists THEN "00000" ELSE "42P01"

\* C4: Rollback(v) of a registered version with down SQL executes the down SQL
\* and deletes v's bookkeeping row in one transaction, leaves the other
\* bookkeeping rows as they were and then appends one rollback log row; for a
\* version that is not registered or has no down SQL it returns an error and
\* changes nothing.  After the rollback of V1 a select finds no table (42P01).
C4_RollbackOneVersion ==
    Returned("Rollback") =>
        LET v == Resolve(migCall.version)
            b == migCall.before
        IN  IF v \notin DOMAIN mh \/ mh[v].downSQL = <<>>
            THEN migCall.err /\ db = b /\ migCall.trace = <<>>
            ELSE /\ InOneTx(migCall.trace)
                 /\ migCall.err => db = b
                 /\ ~migCall.err =>
                       /\ db.user = ExecSQL(mh[v].downSQL, b).db.user
                       /\ db.mig = [b.mig EXCEPT !.rows = @ \ {v}]
                       /\ db.log.rows = Append(b.log.rows, NewLog("rollback", v))
                       /\ v = V1 => SelectUserState(db) = "42P01"

\* V2 then V1 were rolled back after both were applied: the table is gone
C4_Witness ==
    /\ Returned("Rollback") /\ ~migCall.err /\ migCall.version = V1
    /\ migCall.before.mig.rows = {V1}
    /\ db.mig.rows = {} /\ SelectUserState(db) = "42P01"
    /\ db.log.rows = <<NewLog("init", ""), NewLog("rollback", V2), NewLog("rollback", V1)>>

\* C5: ExecuteMigration(v) executes v's up SQL and leaves exactly one bookkeeping
\* row for v, recorded before or not; the up SQL, the check for the row and the
\* insert all run inside the one migration transaction, and a failure of any of
\* them leaves no effect.
C5_ExecuteInOneTx ==
    (Returned("ExecuteMigration") /\ migCall.trace # <<>>) =>
        LET v == Resolve(migCall.version)
            b == migCall.before
        IN  /\ migCall.err => db = b
            /\ ~migCall.err =>
                  /\ db.user = ExecSQL(mh[v].upSQL, b).db.user
                  /\ db.mig.rows = b.mig.rows \cup {v}
            /\ InOneTx(migCall.trace)

\* The init rows of a log table
InitRows(log) ==
    IF log.exists THEN Cardinality({i \in DOMAIN log.rows : log.rows[i].Action = "init"})
    ELSE 0

\* The up SQL of the default migration was sent to the database
ExecutedDefault(trace) ==
    \E i \in DOMAIN trace : trace[i].k = "exec" /\ trace[i].version = DefaultVersion

\* C25: InitSchema can be called in any state of the database: it does not fail
\* on tables that exist, both bookkeeping tables exist afterwards, the log gains
\* exactly one init row, and whenever execDefault is true the default migration
\* is executed.
C25_InitSchemaAnyState ==
    migCall.op = "InitSchema" =>
        /\ ~migCall.panic
        /\ ~migCall.execDefault => ~migCall.err
        /\ db.mig.exists /\ db.log.exists
        /\ InitRows(db.log) = InitRows(migCall.before.log) + 1
        /\ migCall.execDefault => ExecutedDefault(migCall.trace)

\* Every version whose down SQL the last call sent was recorded as applied
\* when the call was made
DownOnlyOfRecorded ==
    \A i \in 1..Len(Executed) : Executed[i] \in migCall.before.mig.rows

\* C30 as stated: Rollback(v) and RollbackLatest execute a version's down SQL
\* only if the version is recorded as applied at the time of the call.
C30_DownOnlyIfApplied ==
    (Returned("Rollback") \/ Returned("RollbackLatest")) => DownOnlyOfRecorded

\* C30: RollbackLatest executes the down SQL of the highest recorded version
\* and of no other, and nothing when no version is recorded; Rollback(v) of a
\* registered version with down SQL executes v's down SQL whether or not v is
\* recorded as applied.
C30_LatestOnlyIfApplied ==
    /\ Returned("RollbackLatest") =>
          /\ DownOnlyOfRecorded
          /\ \A i \in 1..Len(Executed) :
                \A v \in migCall.before.mig.rows : ~LexLess(Chars(Executed[i]), Chars(v))
    /\ (/\ Returned("Rollback") /\ Resolve(migCall.version) \in DOMAIN mh
        /\ mh[Resolve(migCall.version)].downSQL # <<>>)
          => Executed = <<Resolve(migCall.version)>>

\* RollbackLatest took V2 back, the later of the two recorded versions
C30_Witness ==
    /\ Returned("RollbackLatest") /\ ~migCall.err
    /\ migCall.before.mig.rows = {V1, V2}
    /\ Executed = <<V2>>
    /\ db.mig.rows = {V1}

(***************************************************************************)
(* Insert                                                                  *)
(***************************************************************************)
\* The primary keys of the items and the rows the items stand for
ItemPKs(items)  == {items[k].val.ID : k \in 1..Len(items)}
ItemRows(items) == {[id |-> items[k].val.ID, name |-> items[k].val.Name] :
                        k \in 1..Len(items)}

OneType(items) == \A k \in 1..Len(items) : items[k].type = items[1].type

\* The items have distinct primary keys, none of them in the table
DistinctFresh(items, rows) ==
    /\ Cardinality(ItemPKs(items)) = Len(items)
    /\ \A r \in rows : r.id \notin ItemPKs(items)

InsertStep(items, before, after, ret) ==
    /\ (Len(items) = 0 \/ Len(items) > 1000)
          => ret.err /\ ret.sent = 0 /\ after = before
    /\ (/\ Len(items) >= 1 /\ Len(items) <= 1000 /\ OneType(items)
        /\ DistinctFresh(items, before[TableNameOf(items[1].type)]))
          => /\ ~ret.err
             /\ after = [before EXCEPT ![TableNameOf(items[1].type)] =
                                           @ \cup ItemRows(items)]
             /\ Cardinality(after[TableNameOf(items[1].type)])
                  = Cardinality(before[TableNameOf(items[1].type)]) + Len(items)

\* C15: Insert of no item or of more than 1000 items returns an error, sends
\* nothing to the database and leaves every table as it was; Insert of 1 to
\* 1000 items of one record type whose primary keys are distinct and not in
\* the table returns no error and adds exactly these N rows to the table.
C15_InsertLimits ==
    [][res'.op = "Insert" => InsertStep(res'.items, store, store', res')]_vars

\* 1000 items went in with one statement
C15_Witness ==
    /\ res.op = "Insert" /\ Len(res.items) = 1000 /\ ~res.err /\ res.sent = 1
    /\ Cardinality(store["fake_insert2"]) >= 1000

\* C16: an Insert whose items are of more than one record type returns an
\* error and leaves every table as it was, whichever the types are.
C16_MixedTypesRefused ==
    [][(res'.op = "Insert" /\ Len(res'.items) >= 1 /\ ~OneType(res'.items))
          => res'.err /\ store' = store]_vars

\* The statement and the arguments Insert sends for the items: one VALUES
\* group per item, item k's field i (both from zero) under $(i + 1 + F*k), and
\* item k's value of field i bound there; the columns in the model's order
InsertRendered(items, mods, stmt, args) ==
    LET F == Len(mods[1].Fields) IN
    /\ Len(stmt.tuples) = Len(items)
    /\ Len(stmt.cols) = F
    /\ Len(args) = F * Len(items)
    /\ \A i \in 0..(F - 1) :
          /\ stmt.cols[i + 1] = mods[1].Fields[i + 1].PGName
          /\ getFields(mods[1], <<>>).fields[i + 1].PGName = stmt.cols[i + 1]
    /\ \A k \in 0..(Len(items) - 1) :
          /\ Len(stmt.tuples[k + 1]) = F
          /\ \A i \in 0..(F - 1) :
                /\ stmt.tuples[k + 1][i + 1] = i + 1 + F * k
                /\ args[i + 1 + F * k]
                     = FieldVal(items[k + 1].type, items[k + 1].val,
                                mods[1].Fields[i + 1].FieldPos)

\* Get by primary key finds every item as it was passed to Insert
InsertedFound(items, d) ==
    \A k \in 1..Len(items) :
        Get(items[k].type, [items[k].val EXCEPT !.Name = ""], <<>>, d)
          = {Ret(TRUE, FALSE, FALSE, 1, items[k].val, d)}

\* C27: an Insert of N items of one record type with F columns renders one
\* VALUES group per item with item k's field i under $(i + 1 + F*k) and bound
\* to that item's value of that field, columns and projection in the model's
\* field order; the database accepts the statement when the primary keys are
\* new, and Get by primary key then returns each inserted record.
C27_InsertPlaceholders ==
    [][(res'.op = "Insert" /\ ~InsertRefused(Len(res'.items)) /\ OneType(res'.items))
          => /\ \A mods \in {InsertMods(res'.items)} :
                   \A stmt \in {InsertSQL(mods[1], mods)},
                      args \in {InsertArgs(res'.items, mods, 1, Len(mods))} :
                        InsertRendered(res'.items, mods, stmt, args)
             /\ DistinctFresh(res'.items, store[TableNameOf(res'.items[1].type)])
                   => ~res'.err /\ InsertedFound(res'.items, store')]_vars

\* Two records of one type went in with one statement, next to a row that was there
C27_Witness ==
    /\ res.op = "Insert" /\ ~res.err /\ res.sent = 1
    /\ Len(res.items) = 2 /\ OneType(res.items)
    /\ res.items[1].val.ID # res.items[2].val.ID
    /\ ItemRows(res.items) \subseteq store[TableNameOf(res.items[1].type)]
    /\ Cardinality(store[TableNameOf(res.items[1].type)]) = 3

(***************************************************************************)
(* Get, Update and Delete by primary key; transactions                     *)
(***************************************************************************)
\* The rows of the record type's table on the connection of the call
RowsOn(conn) == View(conn)["fake_insert2"]

\* The statement of the call reaches a connection that can answer it
Answered(conn) == ~(conn = "tx" /\ txn.state = "failed")

HasPredicate(opts) ==
    \E i \in 1..Len(opts) : opts[i].k \notin {"columns", "limit", "offset", "order"}

\* The rows that satisfy the predicates of the options
Satisfying(opts, rows) ==
    {r \in rows : \A i \in 1..Len(opts) :
        opts[i].k = "where" => EvalCmp(opts[i].cmp, r[opts[i].field], opts[i].value)}

\* C12: a Get whose options hold no predicate selects by primary key: it
\* finds a row exactly when the table holds a row with the primary key of the
\* record passed, and the record it fills carries that primary key.
C12_OptionsStillByPK ==
    [][(/\ res'.op = "Get" /\ Len(res'.opts) # 0 /\ ~HasPredicate(res'.opts)
        /\ Answered(res'.conn))
          => /\ ~res'.err
             /\ res'.found <=> \E r \in RowsOn(res'.conn) : r.id = res'.rec.ID
             /\ res'.found => res'.val.ID = res'.rec.ID]_vars

\* C13: Update of a record whose primary key is empty returns an error, sends
\* no statement and changes no row.
C13_UpdateEmptyPKRefused ==
    [][(res'.op = "Update" /\ res'.rec.ID = "")
          => res'.err /\ res'.sent = 0 /\ store' = store /\ txn'.rows = txn.rows]_vars

\* The rows after UPDATE ... SET name = rec.Name WHERE id = rec.ID
Updated(rows, rec) ==
    {IF r.id = rec.ID THEN [id |-> r.id, name |-> rec.Name] ELSE r : r \in rows}

\* The last three calls were Insert, Update and Get by primary key of one
\* primary key on one connection, and the first two returned no error
InsertUpdateGet(log) ==
    /\ Len(log) >= 3
    /\ LET i == log[Len(log) - 2]
           u == log[Len(log) - 1]
           g == log[Len(log)]
       IN  /\ i.op = "Insert" /\ u.op = "Update" /\ g.op = "Get" /\ g.opts = <<>>
           /\ ~i.err /\ ~u.err
           /\ i.conn = u.conn /\ u.conn = g.conn
           /\ i.id = u.id /\ u.id = g.id

\* C17: an Update that returns no error sets the non-PK column of every row
\* with the record's primary key to the record's value and leaves every other
\* row as it was; after Insert(a), Update(a') with a's primary key, Get by
\* that primary key finds the row and fills the record with a'.
C17_UpdateThenGet ==
    [][/\ (res'.op = "Update" /\ ~res'.err)
            => /\ (IF res'.conn = "tx" THEN txn'.rows ELSE store')
                    = [View(res'.conn) EXCEPT !["fake_insert2"] = Updated(@, res'.rec)]
               /\ res'.sent = 1
       /\ (InsertUpdateGet(res'.log) /\ Answered(res'.conn))
            => res'.found /\ ~res'.err /\ res'.val = Rec(res'.rec.ID, "b")]_vars

\* Insert(u1, "a"), Update(u1, "b"), Get(u1) returned (u1, "b")
C17_Witness ==
    /\ InsertUpdateGet(res.log) /\ res.found /\ res.val = Rec("u1", "b")

\* The last three calls were Insert, Delete and Get by primary key of one
\* primary key on one connection, and the first two returned no error
InsertDeleteGet(log) ==
    /\ Len(log) >= 3
    /\ LET i == log[Len(log) - 2]
           x == log[Len(log) - 1]
           g == log[Len(log)]
       IN  /\ i.op = "Insert" /\ x.op = "Delete" /\ g.op = "Get" /\ g.opts = <<>>
           /\ ~i.err /\ ~x.err
           /\ i.conn = x.conn /\ x.conn = g.conn
           /\ i.id = x.id /\ x.id = g.id

\* No row matches the Get: by primary key, by the predicates of the options,
\* or among the rows of the join
NoRowMatches(call, rows) ==
    CASE call.op = "GetJoin"  -> call.items = <<>>
      [] call.opts = <<>>     -> \A r \in rows : r.id # call.rec.ID
      [] OTHER                -> Satisfying(call.opts, rows) = {}

\* C18: a Get that no row matches returns (found = false, err = nil), by
\* primary key, with options and with joins; so does the Get by primary key
\* that follows Insert(a) and Delete(a).
C18_NotFoundIsNoError ==
    [][/\ (/\ res'.op \in {"Get", "GetJoin"} /\ Answered(res'.conn)
           /\ NoRowMatches(res', RowsOn(res'.conn)))
            => ~res'.found /\ ~res'.err
       /\ (InsertDeleteGet(res'.log) /\ Answered(res'.conn))
            => ~res'.found /\ ~res'.err]_vars

\* Insert(u1), Delete(u1), Get(u1) returned (false, nil)
C18_Witness ==
    /\ InsertDeleteGet(res.log) /\ res.rec.ID = "u1" /\ ~res.found /\ ~res.err

\* The call before the last was a write of the adapter that returned no error
\* and the last is the adapter's Get by the same primary key
TxWriteThenGet(log, op) ==
    /\ Len(log) >= 2
    /\ LET w == log[Len(log) - 1]
           g == log[Len(log)]
       IN  /\ w.op = op /\ ~w.err /\ w.conn = "tx"
           /\ g.op = "Get" /\ g.opts = <<>> /\ g.conn = "tx" /\ g.id = w.id

C21_SelectOptionsRefused ==
    (CrudDone /\ \E i \in 1..Len(crudCall.opts) : IsSelectOnly(crudCall.opts[i]))
        => /\ crudCall.err /\ ~crudCall.panic
           /\ crudCall.sent = 0 /\ table = crudCall.before

\* DeleteRows(&fakeUpdate{}, Equal("company_id", "c1"), Limit(2)) on a table
\* with a row of company c1 was refused
C21_Witness ==
    /\ CrudDone /\ crudCall.op = "DeleteRows"
    /\ crudCall.opts = <<Equal("company_id", "c1"), Limit(2)>>
    /\ \E r \in table : r.company_id = "c1"
    /\ crudCall.err /\ crudCall.sent = 0

(***************************************************************************)
(* The primary key of a type model                                         *)
(***************************************************************************)
\* The fields of the model whose column type is a primary key
PKFields(mod) == {j \in 1..Len(mod.Fields) : mod.Fields[j].PGType = pgt_pk_string}

HasIDField(st) == \E i \in 1..Len(st) : st[i].GoName = "ID"
HasPKTag(st)   == \E i \in 1..Len(st) : st[i].tag = "pk"

Described == threads[1].pc = "done"

\* C22: a type model has at most one field whose column type is a primary
\* key, and parseModel fails for a record type that declares both a field
\* named ID and a field tagged pgc:"pk", in either order.
C22_OnePrimaryKey ==
    Described =>
        /\ ~threads[1].panic => Cardinality(PKFields(threads[1].mod)) <= 1
        /\ (HasIDField(threads[1].st) /\ HasPKTag(threads[1].st)) => threads[1].panic

\* C23: parseModel(record, true) fails for a record type with neither a
\* pgc:"pk" field nor an ID field, whatever was called before, and a failed
\* parseModel leaves the cache as it was.
C23_RequirePKAlwaysChecked ==
    [][/\ (/\ threads'[1].pc = "done" /\ threads'[1].requirePK
           /\ ~HasIDField(threads'[1].st) /\ ~HasPKTag(threads'[1].st))
            => threads'[1].panic
       /\ (threads'[1].pc = "done" /\ threads'[1].panic)
            => cachedModelMap' = cachedModelMap]_vars

(***************************************************************************)
(* The cached model under SelectCustomData and Count                       *)
(***************************************************************************)
\* C24: a model stored in the cache is never modified, and every
\* SelectCustomData or Count call queries the table of the owner it was
\* passed, whatever other calls with the same destination type run beside it.
C24_CachedModelImmutable ==
    [][/\ \A st \in DOMAIN cachedModelMap.modelMap :
             cachedModelMap'.modelMap[st] = cachedModelMap.modelMap[st]
       /\ \A t \in Threads :
             threads'[t].pc = "done"
                => threads'[t].queried = ModelOf(threads'[t].owner).TableName]_vars


(***************************************************************************)
(* The scan into a destination without a primary key                       *)
(***************************************************************************)
\* C26: for a destination record type without a primary key, SelectCustomData
\* and Count append one destination element per result row, in row order,
\* whatever the kinds and values of the fields: no two rows become one element.
C26_OneElementPerRow ==
    (sel.phase = "done" /\ parseStruct("", sel.st, FALSE).PKName = "")
        => sel.dest = sel.rows


(***************************************************************************)
(* UpdateSchema from two callers at once                                   *)
(***************************************************************************)
\* C29: when two callers run UpdateSchema at once on one database and one
\* registry, no version's up SQL is committed more than once, the bookkeeping
\* table never holds more than one row of a version and no version is
\* installed by both; the caller that loses a version leaves the committed
\* database as it was (its up SQL and its bookkeeping insert are rolled back)
\* and returns an error.
C29_NoVersionTwice ==
    [][/\ \A v \in DOMAIN mh : db'.ups[v] <= 1 /\ db'.ins[v] <= 1
       /\ threads'[1].installed \cap threads'[2].installed = {}
       /\ \A t \in Callers :
             (threads[t].pc = "end" /\ threads'[t].pc = "done")
                => /\ db' = db
                   /\ threads'[t].err
                   /\ threads'[t].lost \cap threads'[t].installed = {}]_vars

\* Both callers went for V3, one installed it; the other ran the up SQL too,
\* lost on the bookkeeping row and returned an error
C29_Witness ==
    /\ \E t \in Callers :
          /\ V3 \in threads[t].installed
          /\ \E u \in Callers \ {t} :
                threads[u].pc = "done" /\ threads[u].err /\ threads[u].lost = {V3}
    /\ db.ups[V3] = 1 /\ db.ins[V3] = 1 /\ V3 \in db.mig.rows

====
